---------------------------- MODULE Spec2Model ----------------------------
(***************************************************************************)
(* State-machine model of the VSIR module (src/unnamed/part_000): the      *)
(* React component's state, its auth and snapshot callbacks, its effects   *)
(* (run after every commit, in declaration order, for the dependencies     *)
(* that changed) and its form handlers.                                    *)
(*                                                                         *)
(* Strings are sequences of one-character strings, so that trim() and      *)
(* toLowerCase() are computed, not assumed.  The persistent store is the   *)
(* environment: a snapshot callback may deliver any collection of the      *)
(* bounded document pools, and an awaited write may succeed or fail.       *)
(***************************************************************************)
EXTENDS Naturals, Sequences, FiniteSets

(***************************************************************************)
(* Bounds of the model.                                                    *)
(***************************************************************************)
\* longest primary-store snapshot delivered
MaxDocs == 2

(***************************************************************************)
(* Strings.                                                                *)
(***************************************************************************)
Empty == <<>>

LowerChar(c) ==
    CASE c = "P" -> "p"
      [] c = "A" -> "a"
      [] c = "B" -> "b"
      [] c = "V" -> "v"
      [] c = "I" -> "i"
      [] c = "N" -> "n"
      [] OTHER -> c

\* String.prototype.toLowerCase
Lower(s) == [i \in 1..Len(s) |-> LowerChar(s[i])]

RECURSIVE TrimLeft(_)
TrimLeft(s) == IF s # <<>> /\ Head(s) = " " THEN TrimLeft(Tail(s)) ELSE s

RECURSIVE TrimRight(_)
TrimRight(s) ==
    IF s # <<>> /\ s[Len(s)] = " " THEN TrimRight(SubSeq(s, 1, Len(s) - 1)) ELSE s

\* String.prototype.trim
Trim(s) == TrimRight(TrimLeft(s))

\* JavaScript truthiness of a string: only '' is falsy
Truthy(s) == s # <<>>

\* a || b on strings
OrElse(a, b) == IF Truthy(a) THEN a ELSE b

(***************************************************************************)
(* Helpers of the component.                                               *)
(***************************************************************************)
makeKey(poNo, itemCode) == Lower(Trim(poNo)) \o <<"|">> \o Lower(Trim(itemCode))

KeyOf(r) == makeKey(r.poNo, r.itemCode)

\* a set() that keeps the value a key already has
MapSetKeepFirst(m, k, v) ==
    IF \E i \in 1..Len(m) : m[i].k = k THEN m ELSE Append(m, [k |-> k, v |-> v])

\* Map.prototype.set on an insertion-ordered list of entries: a key already
\* present keeps its place and takes the new value, a new key is appended
MapSet(m, k, v) ==
    IF \E i \in 1..Len(m) : m[i].k = k
    THEN [i \in 1..Len(m) |-> IF m[i].k = k THEN [k |-> k, v |-> v] ELSE m[i]]
    ELSE Append(m, [k |-> k, v |-> v])

RECURSIVE DedupLoop(_, _)
DedupLoop(arr, m) ==
    IF arr = <<>> THEN m
    ELSE DedupLoop(Tail(arr), MapSet(m, KeyOf(Head(arr)), Head(arr)))

\* a load that keeps every entry of the snapshot
deduplicateNone(arr) == arr

deduplicateVSIRRecords(arr) ==
    LET m == DedupLoop(arr, <<>>) IN [i \in 1..Len(m) |-> m[i].v]

\* Array.prototype.find / findIndex over the results of the callback, one per
\* element: the first index whose result is true, 0 when none is
FindIndex(hits) ==
    IF \E i \in 1..Len(hits) : hits[i]
    THEN CHOOSE i \in 1..Len(hits) : hits[i] /\ \A j \in 1..(i - 1) : ~hits[j]
    ELSE 0

(***************************************************************************)
(* Data.  A record keeps the fields the rules read or write; the other     *)
(* fields of VSRIRecord are carried through unchanged by every rule.       *)
(***************************************************************************)
sP1 == <<"P", "1">>
sP1v == <<"p", "1", " ">>
sP1pad == <<"P", "1", " ">>
sP2 == <<"P", "2">>
sA == <<"A">>
sAv == <<" ", "a">>
sB == <<"B">>
sBv == <<"b">>
sP1low == <<"p", "1">>
sI1 == <<"I", "1">>
sN1 == <<"N", "1">>
sN0 == <<"N", "0">>
sOA1 == <<"O", "1">>
sPB1 == <<"B", "1">>
sVB5 == <<"2", "6", "/", "V", "5">>
sVB7 == <<"2", "6", "/", "V", "7">>
sBlank == <<" ">>

NoId == ""
NoUid == "null"
Users == {"u1"}

VSRIRecord(id, poNo, itemCode, indentNo, vendorBatchNo, invoiceDcNo, qty) ==
    [id |-> id, indentNo |-> indentNo, poNo |-> poNo, oaNo |-> Empty,
     purchaseBatchNo |-> Empty, vendorBatchNo |-> vendorBatchNo,
     invoiceDcNo |-> invoiceDcNo, vendorName |-> Empty, itemCode |-> itemCode,
     qtyReceived |-> qty]

\* the form's initial value (no id)
InitialInput == VSRIRecord(NoId, Empty, Empty, Empty, Empty, Empty, 0)

DeptOrder(poNo, vendorBatchNo) ==
    [materialPurchasePoNo |-> poNo, vendorBatchNo |-> vendorBatchNo,
     oaNo |-> sOA1, batchNo |-> sPB1, vendorName |-> Empty]

PsirRecord(poNo, indentNo) ==
    [poNo |-> poNo, indentNo |-> indentNo, oaNo |-> Empty, batchNo |-> Empty]

\* all sequences without repetition of at most n elements of S
RECURSIVE SeqsUpTo(_, _)
SeqsUpTo(S, n) ==
    IF n = 0 THEN {<<>>}
    ELSE LET shorter == SeqsUpTo(S, n - 1)
         IN  shorter \cup {Append(q, x) : q \in shorter, x \in S}

DistinctIds(docs) ==
    \A i, j \in 1..Len(docs) : docs[i].id = docs[j].id => i = j

\* the snapshots of a pool of documents: the store gives every document an
\* id of its own, so a snapshot never holds two documents with one id
SnapshotsOf(pool) == {docs \in SeqsUpTo(pool, MaxDocs) : DistinctIds(docs)}

(***************************************************************************)
(* State.                                                                  *)
(***************************************************************************)
VARIABLES
    userUid,                 \* useState userUid (NoUid is null)
    records,                 \* useState records
    itemMaster,              \* useState itemMaster
    vendorDeptOrders,        \* useState vendorDeptOrders
    vendorIssues,            \* useState vendorIssues
    purchaseData,            \* useState purchaseData
    purchaseOrders,          \* useState purchaseOrders
    psirData,                \* useState psirData
    autoDeleteEnabled,       \* useState autoDeleteEnabled
    autoImportEnabled,       \* useState autoImportEnabled
    itemInput,               \* useState itemInput (the form)
    existingCombinationsRef, \* useRef: the Set of keys the cache effect built
    unsubscribersRef,        \* useRef: the live store subscriptions
    fetches,                 \* the one-shot fetches started at login, in flight
    imports,                 \* the runImport calls suspended at an await
    deleting,                \* the handleDelete calls suspended at their await
    queue,                   \* effects of the current commit still to run
    changed,                 \* state changed by the effects run so far
    ev                       \* the last step: its handler and the writes it issued

cacheVars == <<itemMaster, vendorDeptOrders, vendorIssues, purchaseData,
               purchaseOrders, psirData>>
vars == <<userUid, records, itemMaster, vendorDeptOrders, vendorIssues, purchaseData,
          purchaseOrders, psirData, autoDeleteEnabled, autoImportEnabled, itemInput,
          existingCombinationsRef, unsubscribersRef, fetches, imports, deleting,
          queue, changed, ev>>

\* a write handed to the store: addVSIRRecord, updateVSIRRecord, deleteVSIRRecord
Write(kind, uid, id, data) == [kind |-> kind, uid |-> uid, id |-> id, data |-> data]

\* op: the handler or effect that ran; writes: the store writes it issued, in
\* order; confirm: the operator's answer to window.confirm ("na" when not asked);
\* updated: whether it replaced the record set; arg: the collection it was given;
\* alert: the message it showed the operator ("none" when it showed none)
Ev(op, writes, confirm, updated, arg) ==
    [op |-> op, writes |-> writes, confirm |-> confirm, updated |-> updated,
     arg |-> arg, alert |-> "none"]

EvAlert(op, msg) ==
    [op |-> op, writes |-> <<>>, confirm |-> "na", updated |-> FALSE, arg |-> <<>>,
     alert |-> msg]

(***************************************************************************)
(* Effects.  After a commit React runs, in declaration order, the effects  *)
(* one of whose dependencies changed; the state they set is rendered in    *)
(* the next commit, which runs its effects in turn.                        *)
(***************************************************************************)
EffectOrder ==
    <<"cache", "autoDelete", "autoImport", "autoFillIndent", "syncVendorBatch",
      "formIndent", "formOaBatch", "formItemCode", "backfill">>

\* dependency arrays in which the backfill effect follows the record set and
\* the reference collections
DepsBackfillTracked(e) ==
    CASE e = "cache" -> {"records"}
      [] e = "autoDelete" -> {"userUid", "purchaseData", "records", "autoDeleteEnabled"}
      [] e = "autoImport" ->
            {"autoImportEnabled", "purchaseOrders", "purchaseData", "vendorDeptOrders",
             "userUid"}
      [] e = "autoFillIndent" -> {"userUid", "psirData", "records"}
      [] e = "syncVendorBatch" -> {"vendorDeptOrders"}
      [] e = "formIndent" -> {"itemInput.poNo", "psirData"}
      [] e = "formOaBatch" ->
            {"itemInput.poNo", "vendorDeptOrders", "psirData", "vendorIssues"}
      [] e = "formItemCode" -> {"itemInput.itemCode", "vendorIssues", "itemInput.poNo"}
      [] e = "backfill" -> {"records", "psirData", "vendorDeptOrders", "vendorIssues"}

\* the dependency array of each effect
Deps(e) ==
    CASE e = "cache" -> {"records"}
      [] e = "autoDelete" -> {"userUid", "purchaseData", "records", "autoDeleteEnabled"}
      [] e = "autoImport" ->
            {"autoImportEnabled", "purchaseOrders", "purchaseData", "vendorDeptOrders",
             "userUid"}
      [] e = "autoFillIndent" -> {"userUid", "psirData", "records"}
      [] e = "syncVendorBatch" -> {"vendorDeptOrders"}
      [] e = "formIndent" -> {"itemInput.poNo", "psirData"}
      [] e = "formOaBatch" ->
            {"itemInput.poNo", "vendorDeptOrders", "psirData", "vendorIssues"}
      [] e = "formItemCode" -> {"itemInput.itemCode", "vendorIssues", "itemInput.poNo"}
      [] e = "backfill" -> {}

EffectsFor(ch) == SelectSeq(EffectOrder, LAMBDA e : Deps(e) \cap ch # {})

\* a handler set the state named in ch: the commit's effects are queued
Commit(ch) ==
    /\ queue' = EffectsFor(ch)
    /\ changed' = {}

\* the effect at the head of the queue ran and set the state named in ch
EffectDone(ch) ==
    IF Tail(queue) = <<>>
    THEN /\ queue' = EffectsFor(changed \cup ch)
         /\ changed' = {}
    ELSE /\ queue' = Tail(queue)
         /\ changed' = changed \cup ch

Running(e) == queue # <<>> /\ Head(queue) = e

\* no effect is pending: the event loop takes the next callback
Idle == queue = <<>>

\* the component has rendered once; every effect is about to run for the mount
Init ==
    /\ userUid = NoUid
    /\ records = <<>>
    /\ itemMaster = <<>>
    /\ vendorDeptOrders = <<>>
    /\ vendorIssues = <<>>
    /\ purchaseData = <<>>
    /\ purchaseOrders = <<>>
    /\ psirData = <<>>
    /\ autoDeleteEnabled = FALSE
    /\ autoImportEnabled = FALSE
    /\ itemInput = InitialInput
    /\ existingCombinationsRef = {}
    /\ unsubscribersRef = <<>>
    /\ fetches = {}
    /\ imports = {}
    /\ deleting = {}
    /\ queue = EffectOrder
    /\ changed = {}
    /\ ev = Ev("mount", <<>>, "na", FALSE, <<>>)

(***************************************************************************)
(* Authentication and store subscriptions.                                 *)
(***************************************************************************)
Subscription(coll, uid) == [coll |-> coll, uid |-> uid]

Subscribed(coll) == \E i \in 1..Len(unsubscribersRef) : unsubscribersRef[i].coll = coll

\* a cleanup that leaves the subscriptions in place
unsubscribeNone(subs) == subs

\* unsubscribeAll(): every subscription of the ref is ended and the ref emptied
unsubscribeAll(subs) == <<>>

\* onAuthStateChanged callback: uid is the new identity, NoUid at logout
AuthChange(uid) ==
    /\ Idle
    /\ userUid' = uid
    /\ UNCHANGED <<autoDeleteEnabled, autoImportEnabled, itemInput,
                   existingCombinationsRef, imports, deleting>>
    /\ ev' = Ev("auth", <<>>, "na", FALSE, <<>>)
    /\ IF uid = NoUid
       THEN /\ unsubscribersRef' = unsubscribeAll(unsubscribersRef)
            /\ records' = <<>>
            /\ vendorDeptOrders' = <<>>
            /\ psirData' = <<>>
            /\ purchaseData' = <<>>
            /\ purchaseOrders' = <<>>
            /\ itemMaster' = <<>>
            /\ vendorIssues' = <<>>
            /\ UNCHANGED fetches
            /\ Commit({"records", "vendorDeptOrders", "psirData", "purchaseData",
                       "purchaseOrders", "itemMaster", "vendorIssues"}
                      \cup (IF userUid # uid THEN {"userUid"} ELSE {}))
       ELSE /\ unsubscribersRef' =
                   unsubscribeAll(unsubscribersRef)
                   \o <<Subscription("vsir", uid), Subscription("vendorDepts", uid),
                        Subscription("psirs", uid), Subscription("purchaseData", uid),
                        Subscription("purchaseOrders", uid)>>
            /\ fetches' = fetches \cup {[uid |-> uid, pc |-> "getItemMaster"]}
            /\ UNCHANGED <<records, cacheVars>>
            /\ Commit(IF userUid # uid THEN {"userUid"} ELSE {})

\* the component has not unmounted
Mounted == ev.op # "unmount"

\* the cleanup of the auth effect, run when the component unmounts: the auth
\* listener and every store subscription are ended
Unmount ==
    /\ Idle
    /\ Mounted
    /\ unsubscribersRef' = unsubscribeAll(unsubscribersRef)
    /\ ev' = Ev("unmount", <<>>, "na", FALSE, <<>>)
    /\ UNCHANGED <<userUid, records, cacheVars, autoDeleteEnabled, autoImportEnabled,
                   itemInput, existingCombinationsRef, fetches, imports, deleting,
                   queue, changed>>

\* subscribeVSIRRecords callback
OnVSIRSnapshot(docs) ==
    /\ Idle
    /\ Subscribed("vsir")
    /\ records' = deduplicateVSIRRecords(docs)
    /\ Commit({"records"})
    /\ ev' = Ev("vsirSnapshot", <<>>, "na", TRUE, docs)
    /\ UNCHANGED <<userUid, cacheVars, autoDeleteEnabled, autoImportEnabled, itemInput,
                   existingCombinationsRef, unsubscribersRef, fetches, imports, deleting>>

\* subscribeVendorDepts callback
OnVendorDeptsSnapshot(docs) ==
    /\ Idle
    /\ Subscribed("vendorDepts")
    /\ vendorDeptOrders' = docs
    /\ Commit({"vendorDeptOrders"})
    /\ ev' = Ev("vendorDeptsSnapshot", <<>>, "na", FALSE, <<>>)
    /\ UNCHANGED <<userUid, records, itemMaster, vendorIssues, purchaseData,
                   purchaseOrders, psirData, autoDeleteEnabled, autoImportEnabled,
                   itemInput, existingCombinationsRef, unsubscribersRef, fetches,
                   imports, deleting>>

\* subscribePsirs callback
OnPsirsSnapshot(docs) ==
    /\ Idle
    /\ Subscribed("psirs")
    /\ psirData' = docs
    /\ Commit({"psirData"})
    /\ ev' = Ev("psirsSnapshot", <<>>, "na", FALSE, <<>>)
    /\ UNCHANGED <<userUid, records, itemMaster, vendorDeptOrders, vendorIssues,
                   purchaseData, purchaseOrders, autoDeleteEnabled, autoImportEnabled,
                   itemInput, existingCombinationsRef, unsubscribersRef, fetches,
                   imports, deleting>>

\* subscribePurchaseData callback
OnPurchaseDataSnapshot(docs) ==
    /\ Idle
    /\ Subscribed("purchaseData")
    /\ purchaseData' = docs
    /\ Commit({"purchaseData"})
    /\ ev' = Ev("purchaseDataSnapshot", <<>>, "na", FALSE, <<>>)
    /\ UNCHANGED <<userUid, records, itemMaster, vendorDeptOrders, vendorIssues,
                   purchaseOrders, psirData, autoDeleteEnabled, autoImportEnabled,
                   itemInput, existingCombinationsRef, unsubscribersRef, fetches,
                   imports, deleting>>

\* subscribePurchaseOrders callback
OnPurchaseOrdersSnapshot(docs) ==
    /\ Idle
    /\ Subscribed("purchaseOrders")
    /\ purchaseOrders' = docs
    /\ Commit({"purchaseOrders"})
    /\ ev' = Ev("purchaseOrdersSnapshot", <<>>, "na", FALSE, <<>>)
    /\ UNCHANGED <<userUid, records, itemMaster, vendorDeptOrders, vendorIssues,
                   purchaseData, psirData, autoDeleteEnabled, autoImportEnabled,
                   itemInput, existingCombinationsRef, unsubscribersRef, fetches,
                   imports, deleting>>

(***************************************************************************)
(* Effects on the record set.                                              *)
(***************************************************************************)
\* a cache effect that adds the keys of the records to the Set it finds
CacheEffectIncremental ==
    /\ Running("cache")
    /\ existingCombinationsRef' =
           existingCombinationsRef \cup {KeyOf(records[i]) : i \in 1..Len(records)}
    /\ EffectDone({})
    /\ ev' = Ev("cache", <<>>, "na", FALSE, <<>>)
    /\ UNCHANGED <<userUid, records, cacheVars, autoDeleteEnabled, autoImportEnabled,
                   itemInput, unsubscribersRef, fetches, imports, deleting>>

\* useEffect [records]: rebuild the deduplication cache
CacheEffect ==
    /\ Running("cache")
    /\ existingCombinationsRef' = {KeyOf(records[i]) : i \in 1..Len(records)}
    /\ EffectDone({})
    /\ ev' = Ev("cache", <<>>, "na", FALSE, <<>>)
    /\ UNCHANGED <<userUid, records, cacheVars, autoDeleteEnabled, autoImportEnabled,
                   itemInput, unsubscribersRef, fetches, imports, deleting>>

\* deletes that leave out the first record
DeleteWritesButFirst(recs, uid) ==
    LET withId == Tail(SelectSeq(recs, LAMBDA r : r.id # NoId))
    IN  [i \in 1..Len(withId) |-> Write("delete", uid, withId[i].id, InitialInput)]

\* records.forEach(rec => deleteVSIRRecord(userUid, rec.id)), skipping a falsy id
DeleteWrites(recs, uid) ==
    LET withId == SelectSeq(recs, LAMBDA r : r.id # NoId)
    IN  [i \in 1..Len(withId) |-> Write("delete", uid, withId[i].id, InitialInput)]

\* a condition that ignores the purchase data
AutoDeleteDueAnyData == records # <<>>

\* the auto-delete effect's condition once the toggle and the identity are set
AutoDeleteDue == purchaseData = <<>> /\ records # <<>>

\* useEffect [userUid, purchaseData, records, autoDeleteEnabled]: auto-delete
AutoDeleteEffect ==
    /\ Running("autoDelete")
    /\ EffectDone({})
    /\ UNCHANGED <<userUid, records, cacheVars, autoDeleteEnabled, autoImportEnabled,
                   itemInput, existingCombinationsRef, unsubscribersRef, fetches,
                   imports, deleting>>
    /\ IF ~autoDeleteEnabled \/ userUid = NoUid
       THEN ev' = Ev("autoDelete", <<>>, "na", FALSE, <<>>)
       ELSE IF AutoDeleteDue
            THEN \E ok \in BOOLEAN :
                    ev' = Ev("autoDelete",
                             IF ok THEN DeleteWrites(records, userUid) ELSE <<>>,
                             IF ok THEN "yes" ELSE "no", FALSE, <<>>)
            ELSE ev' = Ev("autoDelete", <<>>, "na", FALSE, <<>>)

\* psirData.find(p => String(p.poNo).trim() === String(poNo).trim())
PsirMatch(poNo) == FindIndex([k \in 1..Len(psirData) |-> Trim(psirData[k].poNo) = Trim(poNo)])

\* vendorDeptOrders.find(v => String(v.materialPurchasePoNo).trim() === String(poNo).trim())
DeptMatch(depts, poNo) ==
    FindIndex([k \in 1..Len(depts) |-> Trim(depts[k].materialPurchasePoNo) = Trim(poNo)])

\* the record the auto-fill effect's map() returns for one record
FillIndent(record) ==
    IF Truthy(record.poNo) /\ ~Truthy(record.indentNo)
    THEN LET m == PsirMatch(record.poNo)
         IN  IF m # 0 /\ Truthy(psirData[m].indentNo)
                     /\ psirData[m].indentNo # record.indentNo
             THEN [record EXCEPT !.indentNo = psirData[m].indentNo]
             ELSE record
    ELSE record

UpdateWrites(recs, uid) ==
    LET withId == SelectSeq(recs, LAMBDA r : r.id # NoId)
    IN  [i \in 1..Len(withId) |-> Write("update", uid, withId[i].id, withId[i])]

\* the updated flag of the auto-fill effect: set when map() has changed a record
IndentUpdated(updatedRecords) ==
    \E i \in 1..Len(records) : updatedRecords[i] # records[i]

\* useEffect [userUid, psirData, records]: auto-fill indentNo from PSIR
AutoFillIndentEffect ==
    /\ Running("autoFillIndent")
    /\ UNCHANGED <<userUid, cacheVars, autoDeleteEnabled, autoImportEnabled, itemInput,
                   existingCombinationsRef, unsubscribersRef, fetches, imports, deleting>>
    /\ IF userUid = NoUid \/ psirData = <<>> \/ records = <<>>
       THEN /\ UNCHANGED records
            /\ EffectDone({})
            /\ ev' = Ev("autoFillIndent", <<>>, "na", FALSE, <<>>)
       ELSE LET updatedRecords == [i \in 1..Len(records) |-> FillIndent(records[i])]
                updated == IndentUpdated(updatedRecords)
            IN  IF updated
                THEN /\ records' = updatedRecords
                     /\ EffectDone({"records"})
                     /\ ev' = Ev("autoFillIndent", UpdateWrites(updatedRecords, userUid),
                                 "na", TRUE, <<>>)
                ELSE /\ UNCHANGED records
                     /\ EffectDone({})
                     /\ ev' = Ev("autoFillIndent", <<>>, "na", FALSE, <<>>)

\* preconditions that leave out the test of the record's own vendorBatchNo
SyncEligibleAnyBatch(record) ==
    /\ Truthy(record.poNo)
    /\ Truthy(Trim(record.invoiceDcNo))

\* the sync rule's three preconditions on a record
SyncEligible(record) ==
    /\ ~Truthy(Trim(record.vendorBatchNo))
    /\ Truthy(record.poNo)
    /\ Truthy(Trim(record.invoiceDcNo))

\* a map() that copies the department record's OA number as well
SyncVendorBatchAndOa(record) ==
    IF SyncEligible(record)
    THEN LET m == DeptMatch(vendorDeptOrders, record.poNo)
         IN  IF m # 0 /\ Truthy(vendorDeptOrders[m].vendorBatchNo)
             THEN [record EXCEPT !.vendorBatchNo = vendorDeptOrders[m].vendorBatchNo,
                                 !.oaNo = vendorDeptOrders[m].oaNo]
             ELSE record
    ELSE record

\* the record the sync effect's map() returns for one record
SyncVendorBatch(record) ==
    IF SyncEligible(record)
    THEN LET m == DeptMatch(vendorDeptOrders, record.poNo)
         IN  IF m # 0 /\ Truthy(vendorDeptOrders[m].vendorBatchNo)
             THEN [record EXCEPT !.vendorBatchNo = vendorDeptOrders[m].vendorBatchNo]
             ELSE record
    ELSE record

\* useEffect [vendorDeptOrders]: sync vendorBatchNo from the department records
SyncVendorBatchEffect ==
    /\ Running("syncVendorBatch")
    /\ UNCHANGED <<userUid, cacheVars, autoDeleteEnabled, autoImportEnabled, itemInput,
                   existingCombinationsRef, unsubscribersRef, fetches, imports, deleting>>
    /\ IF vendorDeptOrders = <<>>
       THEN /\ UNCHANGED records
            /\ EffectDone({})
            /\ ev' = Ev("syncVendorBatch", <<>>, "na", FALSE, <<>>)
       ELSE LET newRecords == [i \in 1..Len(records) |-> SyncVendorBatch(records[i])]
                updated ==
                    \E i \in 1..Len(records) :
                        /\ SyncEligible(records[i])
                        /\ LET m == DeptMatch(vendorDeptOrders, records[i].poNo)
                           IN  m # 0 /\ Truthy(vendorDeptOrders[m].vendorBatchNo)
            IN  IF updated
                THEN /\ records' = newRecords
                     /\ EffectDone({"records"})
                     /\ ev' = Ev("syncVendorBatch", <<>>, "na", TRUE, <<>>)
                ELSE /\ UNCHANGED records
                     /\ EffectDone({})
                     /\ ev' = Ev("syncVendorBatch", <<>>, "na", FALSE, <<>>)

(***************************************************************************)
(* Auto-import.                                                            *)
(***************************************************************************)
PoCandidates ==
    <<"poNo", "materialPurchasePoNo", "po_no", "poNumber", "purchasePoNo", "poNumberStr">>

\* the key names of the modelled orders that match /po/i, in the orders' key order
PoLikeKeys == <<"poNo", "materialPurchasePoNo", "supplierPo">>

\* the first key of ks that order holds with a truthy value, as order[k]; '' if none
RECURSIVE FirstTruthy(_, _)
FirstTruthy(order, ks) ==
    IF ks = <<>> THEN Empty
    ELSE IF Head(ks) \in DOMAIN order /\ Truthy(order[Head(ks)])
         THEN order[Head(ks)]
         ELSE FirstTruthy(order, Tail(ks))

\* undefined is modelled as '': the caller only tests the result for truthiness
getOrderPoNo(order) == FirstTruthy(order, PoCandidates \o PoLikeKeys)

\* the key names of the modelled orders whose lower case is itemcode, item_name,
\* itemname or model
ItemLikeKeys == {"itemCode", "itemName", "item_name", "model"}

looksLikeItem(obj) == DOMAIN obj \cap ItemLikeKeys # {}

ItemKeys == <<"items", "materials", "products", "lines", "orderItems", "itemsList">>

\* the first key of ks under which order holds a non-empty array; arrays of the
\* modelled orders are held under the container keys only
RECURSIVE FirstArray(_, _)
FirstArray(order, ks) ==
    IF ks = <<>> THEN <<>>
    ELSE IF Head(ks) \in DOMAIN order /\ Len(order[Head(ks)]) > 0
         THEN order[Head(ks)]
         ELSE FirstArray(order, Tail(ks))

getOrderItems(order) ==
    IF looksLikeItem(order) THEN <<order>> ELSE FirstArray(order, ItemKeys)

\* item.itemCode || ''
ItemCodeOf(item) == IF "itemCode" \in DOMAIN item THEN item.itemCode ELSE Empty

\* item.qty || 0
QtyOf(item) == IF "qty" \in DOMAIN item THEN item.qty ELSE 0

\* the id of a record built by runImport: Math.random().toString(36).slice(2)
RandomId == "rnd"

\* the record runImport builds for item j of order i
NewRecord(run, i, j) ==
    LET order == run.source[i]
        poNo == getOrderPoNo(order)
        item == getOrderItems(order)[j]
        m == DeptMatch(run.depts, poNo)
    IN  [id |-> RandomId, indentNo |-> Empty, poNo |-> poNo,
         oaNo |-> IF m # 0 THEN run.depts[m].oaNo ELSE Empty,
         purchaseBatchNo |-> IF m # 0 THEN run.depts[m].batchNo ELSE Empty,
         vendorBatchNo |-> Empty, invoiceDcNo |-> Empty, vendorName |-> Empty,
         itemCode |-> ItemCodeOf(item), qtyReceived |-> QtyOf(item)]

ImportKey(source, i, j) ==
    makeKey(getOrderPoNo(source[i]), ItemCodeOf(getOrderItems(source[i])[j]))

\* a test that skips no order
SkipOrderNever(order) == FALSE

\* the orders runImport passes over: no PO number, or no line items
SkipOrder(order) == ~Truthy(getOrderPoNo(order)) \/ getOrderItems(order) = <<>>

\* the two loops of runImport from item j of order i on: the place <<i, j>> of the
\* next item that is not skipped, <<0, 0>> when the loops end
RECURSIVE ScanFrom(_, _, _, _)
ScanFrom(source, combos, i, j) ==
    IF i > Len(source) THEN <<0, 0>>
    ELSE IF SkipOrder(source[i]) \/ j > Len(getOrderItems(source[i]))
         THEN ScanFrom(source, combos, i + 1, 1)
         ELSE IF ImportKey(source, i, j) \in combos
              THEN ScanFrom(source, combos, i, j + 1)
              ELSE <<i, j>>

\* a runImport call suspended at await addVSIRRecord for item j of order i; combos
\* is the Set it read from existingCombinationsRef when it started, depts the
\* vendorDeptOrders of its closure, added the keys of the adds it has issued
\* that succeeded or are awaited, call the number that tells it from the other
\* calls in progress
ImportRun(uid, source, combos, depts, i, j, added) ==
    [uid |-> uid, source |-> source, combos |-> combos, depts |-> depts,
     i |-> i, j |-> j, added |-> added, call |-> 1]

\* most runImport calls in progress at once
MaxRuns == 1

\* the least number no runImport call in progress carries
FreeCall ==
    LET free == {k \in 1..(Cardinality(imports) + 1) : \A run \in imports : run.call # k}
    IN  CHOOSE k \in free : \A l \in free : k <= l

\* runImport() up to its first await: the call left suspended (none when it
\* returned or ran to its end) and the add it issued
ImportStart ==
    LET sourceData == IF purchaseOrders # <<>> THEN purchaseOrders ELSE purchaseData
        at == ScanFrom(sourceData, existingCombinationsRef, 1, 1)
        run == [ImportRun(userUid, sourceData, existingCombinationsRef,
                          vendorDeptOrders, at[1], at[2],
                          <<ImportKey(sourceData, at[1], at[2])>>)
                    EXCEPT !.call = FreeCall]
    IN  IF userUid = NoUid \/ sourceData = <<>> \/ at = <<0, 0>>
        THEN [runs |-> {}, writes |-> <<>>]
        ELSE [runs |-> {run},
              writes |-> <<Write("add", userUid, RandomId, NewRecord(run, at[1], at[2]))>>]

\* an effect that runs the import whatever the operator answered
AutoImportOutcomeAlways(ok) == ImportStart

\* the auto-import effect once the toggle is on; ok is the operator's answer
AutoImportOutcome(ok) == IF ok THEN ImportStart ELSE [runs |-> {}, writes |-> <<>>]

\* useEffect [autoImportEnabled, purchaseOrders, purchaseData, vendorDeptOrders,
\* userUid, runImport]: confirm, then runImport() up to its first await
AutoImportEffectUpTo(n) ==
    /\ Running("autoImport")
    /\ EffectDone({})
    /\ UNCHANGED <<userUid, records, cacheVars, autoDeleteEnabled, autoImportEnabled,
                   itemInput, existingCombinationsRef, unsubscribersRef, fetches,
                   deleting>>
    /\ IF ~autoImportEnabled
       THEN /\ UNCHANGED imports
            /\ ev' = Ev("autoImport", <<>>, "na", FALSE, <<>>)
       ELSE \E ok \in {b \in BOOLEAN : b => Cardinality(imports) < n} :
               /\ imports' = imports \cup AutoImportOutcome(ok).runs
               /\ ev' = Ev("autoImport", AutoImportOutcome(ok).writes,
                           IF ok THEN "yes" ELSE "no", FALSE, <<>>)

\* the auto-import effect with at most MaxRuns calls of runImport in progress
AutoImportEffect == AutoImportEffectUpTo(MaxRuns)

\* a loop that a rejected add ends
ResumeAtUnlessRejected(run, ok) ==
    IF ok THEN ScanFrom(run.source, run.combos, run.i, run.j + 1) ELSE <<0, 0>>

\* where runImport goes on once the add it awaits has settled: try/catch around the
\* await, so the same place whether the add succeeded or not
ResumeAt(run, ok) == ScanFrom(run.source, run.combos, run.i, run.j + 1)

\* the add a runImport call awaits settles (ok: it succeeded), and the call runs
\* on to its next await or to its end
ImportAddSettles(run, ok) ==
    /\ Idle
    /\ run \in imports
    /\ UNCHANGED <<userUid, records, cacheVars, autoDeleteEnabled, autoImportEnabled,
                   itemInput, existingCombinationsRef, unsubscribersRef, fetches,
                   deleting, queue, changed>>
    /\ LET at == ResumeAt(run, ok)
           kept == IF ok THEN run.added ELSE SubSeq(run.added, 1, Len(run.added) - 1)
           next == [run EXCEPT !.i = at[1], !.j = at[2],
                               !.added = Append(kept,
                                                ImportKey(run.source, at[1], at[2]))]
           op == IF ok THEN "importAddResolved" ELSE "importAddRejected"
       IN  IF at = <<0, 0>>
           THEN /\ imports' = imports \ {run}
                /\ ev' = Ev(op, <<>>, "na", FALSE, <<>>)
           ELSE /\ imports' = (imports \ {run}) \cup {next}
                /\ ev' = Ev(op, <<Write("add", run.uid, RandomId,
                                        NewRecord(run, at[1], at[2]))>>,
                            "na", FALSE, <<>>)

(***************************************************************************)
(* The form.                                                               *)
(***************************************************************************)
VendorIssue(poNo, vendorBatchNo, items) ==
    [materialPurchasePoNo |-> poNo, vendorBatchNo |-> vendorBatchNo, oaNo |-> Empty,
     batchNo |-> Empty, vendorName |-> Empty, items |-> items]

\* useEffect [itemInput.poNo, psirData]: indentNo of the form
FormIndentEffect ==
    /\ Running("formIndent")
    /\ EffectDone({})
    /\ ev' = Ev("formIndent", <<>>, "na", FALSE, <<>>)
    /\ UNCHANGED <<userUid, records, cacheVars, autoDeleteEnabled, autoImportEnabled,
                   existingCombinationsRef, unsubscribersRef, fetches, imports, deleting>>
    /\ IF ~Truthy(itemInput.poNo) \/ psirData = <<>>
       THEN UNCHANGED itemInput
       ELSE LET m == PsirMatch(itemInput.poNo)
            IN  IF m # 0 /\ Truthy(psirData[m].indentNo)
                THEN itemInput' = [itemInput EXCEPT !.indentNo = psirData[m].indentNo]
                ELSE UNCHANGED itemInput

IssueMatch(poNo) ==
    FindIndex([k \in 1..Len(vendorIssues) |->
                  Trim(vendorIssues[k].materialPurchasePoNo) = Trim(poNo)])

\* useEffect [itemInput.poNo, vendorDeptOrders, psirData, vendorIssues]: oaNo,
\* purchaseBatchNo and vendorName of the form
FormOaBatchEffect ==
    /\ Running("formOaBatch")
    /\ EffectDone({})
    /\ ev' = Ev("formOaBatch", <<>>, "na", FALSE, <<>>)
    /\ UNCHANGED <<userUid, records, cacheVars, autoDeleteEnabled, autoImportEnabled,
                   existingCombinationsRef, unsubscribersRef, fetches, imports, deleting>>
    /\ IF ~Truthy(itemInput.poNo)
       THEN UNCHANGED itemInput
       ELSE LET d == DeptMatch(vendorDeptOrders, itemInput.poNo)
                oa1 == IF d # 0 THEN vendorDeptOrders[d].oaNo ELSE Empty
                b1 == IF d # 0 THEN vendorDeptOrders[d].batchNo ELSE Empty
                v1 == IF d # 0 THEN vendorDeptOrders[d].vendorName ELSE Empty
                p == IF (~Truthy(oa1) \/ ~Truthy(b1)) /\ psirData # <<>>
                     THEN PsirMatch(itemInput.poNo) ELSE 0
                oa2 == IF p # 0 THEN OrElse(oa1, psirData[p].oaNo) ELSE oa1
                b2 == IF p # 0 THEN OrElse(b1, psirData[p].batchNo) ELSE b1
                s == IF (~Truthy(oa2) \/ ~Truthy(b2) \/ ~Truthy(v1))
                        /\ vendorIssues # <<>>
                     THEN IssueMatch(itemInput.poNo) ELSE 0
                oa3 == IF s # 0 THEN OrElse(oa2, vendorIssues[s].oaNo) ELSE oa2
                b3 == IF s # 0 THEN OrElse(b2, vendorIssues[s].batchNo) ELSE b2
                v3 == IF s # 0 THEN OrElse(v1, vendorIssues[s].vendorName) ELSE v1
            IN  itemInput' = [itemInput EXCEPT
                                 !.oaNo = OrElse(oa3, itemInput.oaNo),
                                 !.purchaseBatchNo = OrElse(b3, itemInput.purchaseBatchNo),
                                 !.vendorName = OrElse(v3, itemInput.vendorName)]

\* useEffect [itemInput.itemCode, vendorIssues, itemInput.poNo]: poNo and
\* vendorName of the form from the vendor issues
FormItemCodeEffect ==
    /\ Running("formItemCode")
    /\ ev' = Ev("formItemCode", <<>>, "na", FALSE, <<>>)
    /\ UNCHANGED <<userUid, records, cacheVars, autoDeleteEnabled, autoImportEnabled,
                   existingCombinationsRef, unsubscribersRef, fetches, imports, deleting>>
    /\ IF ~Truthy(itemInput.itemCode) \/ vendorIssues = <<>>
       THEN /\ UNCHANGED itemInput
            /\ EffectDone({})
       ELSE LET src == IF Truthy(itemInput.poNo)
                       THEN IssueMatch(itemInput.poNo)
                       ELSE FindIndex([n \in 1..Len(vendorIssues) |->
                                \E k \in 1..Len(vendorIssues[n].items) :
                                    Trim(ItemCodeOf(vendorIssues[n].items[k]))
                                        = Trim(itemInput.itemCode)])
                poNo == IF src = 0 THEN itemInput.poNo
                        ELSE OrElse(itemInput.poNo, vendorIssues[src].materialPurchasePoNo)
            IN  IF src = 0
                THEN /\ UNCHANGED itemInput
                     /\ EffectDone({})
                ELSE /\ itemInput' =
                            [itemInput EXCEPT
                                !.poNo = poNo,
                                !.vendorName = OrElse(itemInput.vendorName,
                                                      vendorIssues[src].vendorName)]
                     /\ EffectDone(IF poNo # itemInput.poNo THEN {"itemInput.poNo"}
                                   ELSE {})

\* handleChange for a text input of the form
HandleChange(name, value) ==
    /\ Idle
    /\ itemInput' = [itemInput EXCEPT ![name] = value]
    /\ Commit(IF itemInput[name] = value THEN {}
              ELSE IF name = "poNo" THEN {"itemInput.poNo"}
              ELSE IF name = "itemCode" THEN {"itemInput.itemCode"}
              ELSE {})
    /\ ev' = Ev("change", <<>>, "na", FALSE, <<>>)
    /\ UNCHANGED <<userUid, records, cacheVars, autoDeleteEnabled, autoImportEnabled,
                   existingCombinationsRef, unsubscribersRef, fetches, imports, deleting>>

getVendorBatchNoForPO(poNo) ==
    IF ~Truthy(poNo) THEN Empty
    ELSE LET d == FindIndex([k \in 1..Len(vendorDeptOrders) |->
                                 vendorDeptOrders[k].materialPurchasePoNo = poNo])
             i == FindIndex([k \in 1..Len(vendorIssues) |->
                                 vendorIssues[k].materialPurchasePoNo = poNo])
         IN  IF d # 0 /\ Truthy(vendorDeptOrders[d].vendorBatchNo)
             THEN vendorDeptOrders[d].vendorBatchNo
             ELSE IF i # 0 /\ Truthy(vendorIssues[i].vendorBatchNo)
                  THEN vendorIssues[i].vendorBatchNo
                  ELSE Empty

\* handleSubmit asks for a vendor batch number: invoice set, none in the form, PO set
SubmitNeedsBatch(input) ==
    /\ Truthy(Trim(input.invoiceDcNo))
    /\ ~Truthy(Trim(input.vendorBatchNo))
    /\ Truthy(input.poNo)

\* finalInput of handleSubmit, once the vendor batch number is settled
FinalInput(input) ==
    IF SubmitNeedsBatch(input)
    THEN [input EXCEPT !.vendorBatchNo = getVendorBatchNoForPO(input.poNo)]
    ELSE IF ~Truthy(Trim(input.invoiceDcNo))
         THEN [input EXCEPT !.vendorBatchNo = Empty]
         ELSE input

\* { ...existing, ...finalInput }: the form has no id unless an edit put one there
Overlay(existing, finalInput) ==
    [finalInput EXCEPT !.id = IF finalInput.id = NoId THEN existing.id ELSE finalInput.id]

\* a lookup that never finds the key
ExistingIdxNever(key) == 0

\* records.findIndex(r => makeKey(r.poNo, r.itemCode) === key)
ExistingIdx(key) == FindIndex([k \in 1..Len(records) |-> KeyOf(records[k]) = key])

\* the write handleSubmit issues for finalInput
SubmitWrite(finalInput) ==
    LET existingIdx == ExistingIdx(makeKey(finalInput.poNo, finalInput.itemCode))
    IN  IF existingIdx # 0
        THEN Write("update", userUid, records[existingIdx].id,
                   Overlay(records[existingIdx], finalInput))
        ELSE Write("add", userUid, NoId, finalInput)

\* handleSubmit, up to its await
HandleSubmit ==
    /\ Idle
    /\ UNCHANGED <<userUid, records, cacheVars, autoDeleteEnabled, autoImportEnabled,
                   itemInput, existingCombinationsRef, unsubscribersRef, fetches, imports,
                   deleting, queue, changed>>
    /\ IF userUid = NoUid
       THEN ev' = EvAlert("submit", "You must be logged in.")
       ELSE IF SubmitNeedsBatch(itemInput)
                 /\ ~Truthy(getVendorBatchNoForPO(itemInput.poNo))
            THEN ev' = EvAlert("submit", "Vendor Batch No could not be determined")
            ELSE ev' = Ev("submit", <<SubmitWrite(FinalInput(itemInput))>>, "na",
                          FALSE, <<>>)

Digits == <<"0", "1", "2", "3", "4", "5", "6", "7", "8", "9">>

IsDigit(c) == \E d \in 1..10 : Digits[d] = c

DigitVal(c) == (CHOOSE d \in 1..10 : Digits[d] = c) - 1

\* parseInt(ds, 10) of a string of digits
RECURSIVE ParseInt(_)
ParseInt(ds) ==
    IF ds = <<>> THEN 0
    ELSE 10 * ParseInt(SubSeq(ds, 1, Len(ds) - 1)) + DigitVal(ds[Len(ds)])

\* String(n) of a natural number
RECURSIVE NatToString(_)
NatToString(n) ==
    IF n < 10 THEN <<Digits[n + 1]>>
    ELSE NatToString(n \div 10) \o <<Digits[(n % 10) + 1]>>

\* the longest run of digits of s that starts at position p
RECURSIVE DigitsAt(_, _)
DigitsAt(s, p) ==
    IF p <= Len(s) /\ IsDigit(s[p]) THEN <<s[p]>> \o DigitsAt(s, p + 1) ELSE <<>>

\* s.match(new RegExp(`${yy}/V(\\d+)`)) tried from position p on: the captured
\* digits of the leftmost match, <<>> when there is none
RECURSIVE RegExpMatchFrom(_, _, _)
RegExpMatchFrom(s, yy, p) ==
    LET head == yy \o <<"/", "V">>
        q == p + Len(head)
    IN  IF q > Len(s) THEN <<>>
        ELSE IF SubSeq(s, p, q - 1) = head /\ DigitsAt(s, q) # <<>>
             THEN DigitsAt(s, q)
             ELSE RegExpMatchFrom(s, yy, p + 1)

Max(a, b) == IF a >= b THEN a ELSE b

\* the forEach of generateVendorBatchNo over one collection, from maxNum
RECURSIVE MaxBatchNum(_, _, _)
MaxBatchNum(coll, yy, maxNum) ==
    IF coll = <<>> THEN maxNum
    ELSE LET match == RegExpMatchFrom(Head(coll).vendorBatchNo, yy, 1)
         IN  MaxBatchNum(Tail(coll), yy,
                         IF match # <<>> THEN Max(maxNum, ParseInt(match)) ELSE maxNum)

\* a generator that answers the highest number found, not the next one
generateVendorBatchNoNoIncrement(yy) ==
    yy \o <<"/", "V">>
       \o NatToString(MaxBatchNum(vendorDeptOrders, yy, MaxBatchNum(records, yy, 0)))

\* generateVendorBatchNo(); yy is the current year's last two digits
generateVendorBatchNo(yy) ==
    yy \o <<"/", "V">>
       \o NatToString(MaxBatchNum(vendorDeptOrders, yy, MaxBatchNum(records, yy, 0)) + 1)

\* handleEdit(idx): the record goes to the form, with a vendor batch number
\* looked up or generated when it has a PO number and none of its own
HandleEdit(idx, yy) ==
    /\ Idle
    /\ idx \in 1..Len(records)
    /\ LET record == records[idx]
           found == getVendorBatchNoForPO(record.poNo)
           edited == IF ~Truthy(Trim(record.vendorBatchNo)) /\ Truthy(record.poNo)
                     THEN [record EXCEPT !.vendorBatchNo =
                               IF Truthy(found) THEN found ELSE generateVendorBatchNo(yy)]
                     ELSE record
       IN  /\ itemInput' = edited
           /\ Commit((IF edited.poNo # itemInput.poNo THEN {"itemInput.poNo"} ELSE {})
                     \cup (IF edited.itemCode # itemInput.itemCode
                           THEN {"itemInput.itemCode"} ELSE {}))
    /\ ev' = Ev("edit", <<>>, "na", FALSE, <<>>)
    /\ UNCHANGED <<userUid, records, cacheVars, autoDeleteEnabled, autoImportEnabled,
                   existingCombinationsRef, unsubscribersRef, fetches, imports, deleting>>

\* the auto-delete checkbox
ToggleAutoDelete ==
    /\ Idle
    /\ autoDeleteEnabled' = ~autoDeleteEnabled
    /\ Commit({"autoDeleteEnabled"})
    /\ ev' = Ev("toggleAutoDelete", <<>>, "na", FALSE, <<>>)
    /\ UNCHANGED <<userUid, records, cacheVars, autoImportEnabled, itemInput,
                   existingCombinationsRef, unsubscribersRef, fetches, imports, deleting>>

\* the auto-import checkbox
ToggleAutoImport ==
    /\ Idle
    /\ autoImportEnabled' = ~autoImportEnabled
    /\ Commit({"autoImportEnabled"})
    /\ ev' = Ev("toggleAutoImport", <<>>, "na", FALSE, <<>>)
    /\ UNCHANGED <<userUid, records, cacheVars, autoDeleteEnabled, itemInput,
                   existingCombinationsRef, unsubscribersRef, fetches, imports, deleting>>

\* handleDelete(idx), up to its await; ok is the operator's answer
HandleDelete(idx, ok) ==
    /\ Idle
    /\ idx \in 1..Len(records)
    /\ UNCHANGED <<userUid, records, cacheVars, autoDeleteEnabled, autoImportEnabled,
                   itemInput, existingCombinationsRef, unsubscribersRef, fetches, imports,
                   queue, changed>>
    /\ IF records[idx].id = NoId \/ userUid = NoUid
       THEN /\ ok
            /\ UNCHANGED deleting
            /\ ev' = Ev("delete", <<>>, "na", FALSE, <<>>)
       ELSE IF ~ok
            THEN /\ UNCHANGED deleting
                 /\ ev' = Ev("delete", <<>>, "no", FALSE, <<>>)
            ELSE /\ deleting' = deleting \cup {records[idx].id}
                 /\ ev' = Ev("delete",
                             <<Write("delete", userUid, records[idx].id, InitialInput)>>,
                             "yes", FALSE, <<>>)

\* a filter that keeps no record
WithoutAny(recs, id) == <<>>

\* prev.filter(r => r.id !== id)
WithoutId(recs, id) == SelectSeq(recs, LAMBDA r : r.id # id)

\* the delete a handleDelete call awaits settles (ok: it succeeded)
DeleteSettles(id, ok) ==
    /\ Idle
    /\ id \in deleting
    /\ deleting' = deleting \ {id}
    /\ UNCHANGED <<userUid, cacheVars, autoDeleteEnabled, autoImportEnabled, itemInput,
                   existingCombinationsRef, unsubscribersRef, fetches, imports>>
    /\ IF ok
       THEN /\ records' = WithoutId(records, id)
            /\ Commit({"records"})
            /\ ev' = Ev("deleteResolved", <<>>, "na", TRUE, <<>>)
       ELSE /\ UNCHANGED <<records, queue, changed>>
            /\ ev' = EvAlert("deleteRejected", "Delete failed. Check console.")

\* getItemMaster settles (ok: it succeeded with items, already filtered to the
\* entries with a string itemName and itemCode), and getVendorIssues is called
ItemMasterSettles(f, ok, items) ==
    /\ Idle
    /\ f \in fetches
    /\ f.pc = "getItemMaster"
    /\ fetches' = (fetches \ {f}) \cup {[f EXCEPT !.pc = "getVendorIssues"]}
    /\ itemMaster' = IF ok THEN items ELSE itemMaster
    /\ Commit(IF ok THEN {"itemMaster"} ELSE {})
    /\ ev' = Ev("itemMasterSettled", <<>>, "na", FALSE, <<>>)
    /\ UNCHANGED <<userUid, records, vendorDeptOrders, vendorIssues, purchaseData,
                   purchaseOrders, psirData, autoDeleteEnabled, autoImportEnabled,
                   itemInput, existingCombinationsRef, unsubscribersRef, imports, deleting>>

\* getVendorIssues settles (ok: it succeeded with vi)
VendorIssuesSettles(f, ok, vi) ==
    /\ Idle
    /\ f \in fetches
    /\ f.pc = "getVendorIssues"
    /\ fetches' = fetches \ {f}
    /\ vendorIssues' = IF ok THEN vi ELSE vendorIssues
    /\ Commit(IF ok THEN {"vendorIssues"} ELSE {})
    /\ ev' = Ev("vendorIssuesSettled", <<>>, "na", FALSE, <<>>)
    /\ UNCHANGED <<userUid, records, itemMaster, vendorDeptOrders, purchaseData,
                   purchaseOrders, psirData, autoDeleteEnabled, autoImportEnabled,
                   itemInput, existingCombinationsRef, unsubscribersRef, imports, deleting>>

\* every effect; one of them is enabled whenever the queue is not empty
\* ref.find(v => String(v.materialPurchasePoNo).trim() === String(poNo).trim())
RefMatch(refs, poNo) ==
    FindIndex([k \in 1..Len(refs) |-> Trim(refs[k].materialPurchasePoNo) = Trim(poNo)])

\* oaNo and batchNo after one source of the backfill has been consulted
BackfillFrom(pair, refs, m) ==
    IF (~Truthy(pair.oaNo) \/ ~Truthy(pair.batchNo)) /\ refs # <<>> /\ m # 0
    THEN [oaNo |-> OrElse(pair.oaNo, refs[m].oaNo),
          batchNo |-> OrElse(pair.batchNo, refs[m].batchNo)]
    ELSE pair

\* the record the backfill effect's map() returns for one record
BackfillRecord(record) ==
    IF (~Truthy(record.oaNo) \/ ~Truthy(record.purchaseBatchNo)) /\ Truthy(record.poNo)
    THEN LET p0 == [oaNo |-> record.oaNo, batchNo |-> record.purchaseBatchNo]
             p1 == BackfillFrom(p0, psirData, PsirMatch(record.poNo))
             p2 == BackfillFrom(p1, vendorDeptOrders,
                                DeptMatch(vendorDeptOrders, record.poNo))
             p3 == BackfillFrom(p2, vendorIssues, RefMatch(vendorIssues, record.poNo))
         IN  [record EXCEPT !.oaNo = p3.oaNo, !.purchaseBatchNo = p3.batchNo]
    ELSE record

\* useEffect []: fill missing OA/Batch, run for the mount only
BackfillEffect ==
    /\ Running("backfill")
    /\ UNCHANGED <<userUid, cacheVars, autoDeleteEnabled, autoImportEnabled, itemInput,
                   existingCombinationsRef, unsubscribersRef, fetches, imports, deleting>>
    /\ ev' = Ev("backfill", <<>>, "na", FALSE, <<>>)
    /\ IF records = <<>>
          \/ (psirData = <<>> /\ vendorDeptOrders = <<>> /\ vendorIssues = <<>>)
       THEN /\ UNCHANGED records
            /\ EffectDone({})
       ELSE LET newRecords == [i \in 1..Len(records) |-> BackfillRecord(records[i])]
            IN  IF newRecords # records
                THEN records' = newRecords /\ EffectDone({"records"})
                ELSE UNCHANGED records /\ EffectDone({})

Effects ==
    \/ BackfillEffect
    \/ CacheEffect
    \/ AutoDeleteEffect
    \/ AutoImportEffect
    \/ AutoFillIndentEffect
    \/ SyncVendorBatchEffect
    \/ FormIndentEffect
    \/ FormOaBatchEffect
    \/ FormItemCodeEffect

(***************************************************************************)
(* The record set under logins, logouts, snapshots, the rules that fill    *)
(* fields and manual deletes.  The documents the primary store may hold:   *)
(* pairs that share a business key up to case and padding, one with a      *)
(* vendor batch number, one with a blank one, one without invoice, one     *)
(* without PO number.                                                      *)
(***************************************************************************)
RecordDocs ==
    { VSRIRecord("r1", sP1, sA, Empty, Empty, sI1, 1),
      VSRIRecord("r1", sP1pad, sB, Empty, Empty, Empty, 6),
      VSRIRecord("r2", sP1pad, sAv, sN0, Empty, sI1, 5),
      VSRIRecord("r2", sP1v, sB, Empty, sBlank, sI1, 2),
      VSRIRecord("r3", sP1, sBv, Empty, sVB7, sI1, 3),
      VSRIRecord("r3", Empty, sA, Empty, Empty, sI1, 4) }

DeptSnapshots ==
    { <<>>,
      <<DeptOrder(sP1pad, sVB5)>>,
      <<DeptOrder(sP1, Empty), DeptOrder(sP1, sVB5), DeptOrder(sP1low, sVB7)>> }

PsirSnapshots == { <<>>, <<PsirRecord(sP1, sN1), PsirRecord(sP1low, Empty)>> }

NextRecords ==
    \/ \E uid \in Users \cup {NoUid} : AuthChange(uid)
    \/ \E docs \in SnapshotsOf(RecordDocs) : OnVSIRSnapshot(docs)
    \/ \E docs \in DeptSnapshots : OnVendorDeptsSnapshot(docs)
    \/ \E docs \in PsirSnapshots : OnPsirsSnapshot(docs)
    \/ \E idx \in 1..MaxDocs, ok \in BOOLEAN : HandleDelete(idx, ok)
    \/ \E id \in deleting, ok \in BOOLEAN : DeleteSettles(id, ok)
    \/ Effects

SpecRecords == Init /\ [][NextRecords]_vars

(***************************************************************************)
(* Claims on the record set.                                               *)
(***************************************************************************)
\* the business key as the specification words it: the trimmed, lower-cased pair
BusinessKey(r) == <<Lower(Trim(r.poNo)), Lower(Trim(r.itemCode))>>

\* C1: in every reachable state the in-memory record set holds at most one record
\* per business key (the trimmed, lower-cased (poNo, itemCode) pair).
C1_OneRecordPerKey ==
    \A i, j \in 1..Len(records) :
        BusinessKey(records[i]) = BusinessKey(records[j]) => i = j

\* C1 witness: a snapshot of two documents whose keys differ only in case and
\* padding was loaded and collapsed to one record.
C1_Witness ==
    /\ ev.op = "vsirSnapshot"
    /\ Len(ev.arg) = 2
    /\ ev.arg[1].itemCode # ev.arg[2].itemCode
    /\ BusinessKey(ev.arg[1]) = BusinessKey(ev.arg[2])
    /\ Len(records) = 1

LastWithKey(docs, k) ==
    CHOOSE i \in 1..Len(docs) :
        /\ BusinessKey(docs[i]) = k
        /\ \A j \in (i + 1)..Len(docs) : BusinessKey(docs[j]) # k

\* C9: right after a primary-store snapshot is loaded, the record set holds exactly
\* one record for each distinct business key of the snapshot and nothing else, and
\* the record kept for a key is the snapshot's last document with that key.
C9_LoadKeepsLastPerKey ==
    ev.op = "vsirSnapshot" =>
        LET docs == ev.arg
            keys == {BusinessKey(docs[i]) : i \in 1..Len(docs)}
        IN  /\ Len(records) = Cardinality(keys)
            /\ \A k \in keys :
                   \E i \in 1..Len(records) : records[i] = docs[LastWithKey(docs, k)]

\* C9 witness: the specification's example, PO1/A with quantity 1 followed by the
\* same key in another case with quantity 5, yields the one record with quantity 5.
C9_Witness ==
    /\ ev.op = "vsirSnapshot"
    /\ Len(ev.arg) = 2
    /\ ev.arg[1].qtyReceived = 1
    /\ ev.arg[2].qtyReceived = 5
    /\ Len(records) = 1
    /\ records[1].qtyReceived = 5

\* the sync rule's preconditions as the specification words them; a field is empty
\* when nothing is left of it once trimmed, the PO number when it is ''
MeetsSyncPreconditions(r) ==
    /\ Trim(r.vendorBatchNo) = Empty
    /\ r.poNo # Empty
    /\ Trim(r.invoiceDcNo) # Empty

\* C10: a run of the sync-vendor-batch rule leaves every record that does not meet
\* all three preconditions as it was; so a record that has a vendor batch number
\* keeps it, whatever the department records hold.
C10_SyncLeavesOthersUntouched ==
    [][Running("syncVendorBatch") =>
          /\ Len(records') = Len(records)
          /\ \A i \in 1..Len(records) :
                 ~MeetsSyncPreconditions(records[i]) => records'[i] = records[i]]_vars

\* C10 witness: the rule filled one record and left beside it a record that has a
\* vendor batch number of its own, an invoice number and the same department match.
C10_Witness ==
    /\ ev.op = "syncVendorBatch"
    /\ ev.updated
    /\ \E i, j \in 1..Len(records) :
           /\ records[i].vendorBatchNo = sVB5
           /\ records[j].vendorBatchNo = sVB7
           /\ LET m == DeptMatch(vendorDeptOrders, records[j].poNo)
              IN  m # 0 /\ vendorDeptOrders[m].vendorBatchNo = sVB5

(***************************************************************************)
(* The bulk rules: auto-delete and auto-import under their toggles, with   *)
(* snapshots of the primary store and of the two source collections.  The  *)
(* source orders: one that repeats an item code in another case, one that  *)
(* is itself a line item under a PO number of another case, one without PO *)
(* number and one without line items.                                      *)
(***************************************************************************)
BulkDocs ==
    { VSRIRecord("r1", sP1, sA, Empty, Empty, Empty, 1),
      VSRIRecord("r2", sP1pad, sB, Empty, Empty, Empty, 2) }

OrderP1 ==
    [poNo |-> sP1,
     items |-> <<[itemCode |-> sA, qty |-> 2], [itemCode |-> sAv, qty |-> 3],
                 [itemCode |-> sB, qty |-> 1]>>]
OrderFlat == [materialPurchasePoNo |-> sP1v, itemCode |-> sA, qty |-> 4]
OrderNoPo == [items |-> <<[itemCode |-> sB, qty |-> 1]>>]
OrderNoItems == [poNo |-> sP2, items |-> <<>>]

PurchaseOrderSnapshots == { <<>>, <<OrderP1>>, <<OrderNoPo, OrderNoItems, OrderFlat>> }

PurchaseDataSnapshots == { <<>>, <<OrderFlat>> }

BulkDeptSnapshots == { <<>>, <<DeptOrder(sP1, sVB5)>> }

NextBulk ==
    \/ \E uid \in Users \cup {NoUid} : AuthChange(uid)
    \/ \E docs \in SnapshotsOf(BulkDocs) : OnVSIRSnapshot(docs)
    \/ \E docs \in PurchaseDataSnapshots : OnPurchaseDataSnapshot(docs)
    \/ \E docs \in PurchaseOrderSnapshots : OnPurchaseOrdersSnapshot(docs)
    \/ \E docs \in BulkDeptSnapshots : OnVendorDeptsSnapshot(docs)
    \/ ToggleAutoDelete
    \/ ToggleAutoImport
    \/ \E run \in imports, ok \in BOOLEAN : ImportAddSettles(run, ok)
    \/ Effects

SpecBulk == Init /\ [][NextBulk]_vars

(***************************************************************************)
(* Claims on the bulk rules.                                               *)
(***************************************************************************)
RecordKeys == {BusinessKey(records[i]) : i \in 1..Len(records)}

ImportOps == {"autoImport", "importAddResolved", "importAddRejected"}

NoRepeat(q) == \A i, j \in 1..Len(q) : q[i] = q[j] => i = j

\* C2: an import run never issues an add for a record whose business key is in the
\* current record set, and it issues at most one add for a key (not counting an
\* add the store rejected), also when the source repeats the (PO number, item
\* code) pair.
C2_ImportAddsNoExistingOrRepeatedKey ==
    /\ ev.op \in ImportOps =>
           \A k \in 1..Len(ev.writes) :
               ev.writes[k].kind = "add" =>
                   BusinessKey(ev.writes[k].data) \notin RecordKeys
    /\ \A run \in imports : NoRepeat(run.added)

\* how often an id is deleted by the writes of a step
DeletesOf(writes, id) ==
    Cardinality({k \in 1..Len(writes) : writes[k].kind = "delete" /\ writes[k].id = id})

\* C3: when the auto-delete effect runs with the toggle on, the purchase data empty
\* and records present, the operator is asked; on yes the effect issues exactly one
\* delete for the id of every record and no other write, on no it issues none.
C3_AutoDeleteOncePerRecord ==
    (/\ ev.op = "autoDelete"
     /\ autoDeleteEnabled
     /\ userUid # NoUid
     /\ purchaseData = <<>>
     /\ records # <<>>)
    => /\ ev.confirm \in {"yes", "no"}
       /\ ev.confirm = "no" => ev.writes = <<>>
       /\ ev.confirm = "yes" =>
              /\ Len(ev.writes) = Len(records)
              /\ \A i \in 1..Len(records) : DeletesOf(ev.writes, records[i].id) = 1

\* C3 witness: the operator agreed and the effect deleted both records present.
C3_Witness ==
    /\ ev.op = "autoDelete"
    /\ ev.confirm = "yes"
    /\ Len(records) = 2
    /\ Len(ev.writes) = 2

\* C4: the auto-delete effect issues a write only in a state where the toggle is
\* on, the purchase-data collection is empty and the record set is not.
C4_AutoDeleteOnlyWhenDue ==
    (ev.op = "autoDelete" /\ ev.writes # <<>>) =>
        /\ autoDeleteEnabled
        /\ purchaseData = <<>>
        /\ records # <<>>

\* C4 witness: the effect issued its delete for a single record, and the purchase
\* orders were not empty (only the purchase data counts).
C4_Witness ==
    /\ ev.op = "autoDelete"
    /\ Len(ev.writes) = 1
    /\ ev.writes[1].kind = "delete"
    /\ purchaseOrders # <<>>

\* C5: when the auto-import effect asks and the operator declines, the step issues
\* no write, starts no import run and changes nothing of the component's state.
C5_DeclinedImportDoesNothing ==
    [][(Running("autoImport") /\ ev'.confirm = "no") =>
          /\ ev'.writes = <<>>
          /\ UNCHANGED <<userUid, records, cacheVars, autoDeleteEnabled,
                         autoImportEnabled, itemInput, existingCombinationsRef,
                         unsubscribersRef, fetches, imports, deleting>>]_vars

\* C5 witness: the operator declined in a state where the run would have added a
\* record.
C5_Witness ==
    /\ ev.op = "autoImport"
    /\ ev.confirm = "no"
    /\ ImportStart.writes # <<>>

(***************************************************************************)
(* Submit: the form is filled field by field and submitted against the     *)
(* record set, the department records and the vendor issues.  The          *)
(* department snapshots include one whose first record for the PO has no   *)
(* vendor batch number while its second has one.                           *)
(***************************************************************************)
SubmitDocs ==
    { VSRIRecord("r1", sP1, sA, sN0, Empty, Empty, 1),
      VSRIRecord("r2", sP2, sA, Empty, Empty, Empty, 2) }

SubmitDeptSnapshots ==
    { <<>>,
      <<DeptOrder(sP1, sVB5)>>,
      <<DeptOrder(sP1, Empty), DeptOrder(sP1, sVB5)>> }

VendorIssueResults == { <<>>, <<VendorIssue(sP1, sVB7, <<[itemCode |-> sA]>>)>> }

FormValues(name) ==
    CASE name = "poNo" -> {Empty, sP1, sP1pad}
      [] name = "itemCode" -> {sA, sAv}
      [] name = "vendorBatchNo" -> {Empty, sBlank, sVB7}
      [] name = "invoiceDcNo" -> {Empty, sI1}

NextSubmit ==
    \/ \E uid \in Users \cup {NoUid} : AuthChange(uid)
    \/ \E docs \in SnapshotsOf(SubmitDocs) : OnVSIRSnapshot(docs)
    \/ \E docs \in SubmitDeptSnapshots : OnVendorDeptsSnapshot(docs)
    \/ \E f \in fetches : ItemMasterSettles(f, TRUE, <<>>)
    \/ \E f \in fetches, ok \in BOOLEAN, vi \in VendorIssueResults :
           VendorIssuesSettles(f, ok, vi)
    \/ \E name \in {"poNo", "itemCode", "vendorBatchNo", "invoiceDcNo"} :
           \E value \in FormValues(name) : HandleChange(name, value)
    \/ HandleSubmit
    \/ Effects

SpecSubmit == Init /\ [][NextSubmit]_vars

(***************************************************************************)
(* Claims on submit.  A form has an invoice/challan number, or a vendor    *)
(* batch number, when the field is not empty once trimmed, which is how    *)
(* handleSubmit tests both.  A reference record matches a PO number when   *)
(* the two are equal once trimmed, case kept.                              *)
(***************************************************************************)
HasInvoice(input) == Trim(input.invoiceDcNo) # Empty

HasNoBatch(input) == Trim(input.vendorBatchNo) = Empty

\* the positions of the reference records that match poNo and carry a batch number
BatchCarriers(refs, poNo) ==
    { k \in 1..Len(refs) : /\ Trim(refs[k].materialPurchasePoNo) = Trim(poNo)
                           /\ poNo # Empty
                           /\ refs[k].vendorBatchNo # Empty }

Lowest(S) == CHOOSE k \in S : \A j \in S : k <= j

\* the batch number the reference collections hold for poNo, departments first
ResolvableBatch(poNo) ==
    IF BatchCarriers(vendorDeptOrders, poNo) # {}
    THEN vendorDeptOrders[Lowest(BatchCarriers(vendorDeptOrders, poNo))].vendorBatchNo
    ELSE IF BatchCarriers(vendorIssues, poNo) # {}
         THEN vendorIssues[Lowest(BatchCarriers(vendorIssues, poNo))].vendorBatchNo
         ELSE Empty

\* C6: a submit whose form has an invoice/challan number and no vendor batch
\* number, while no department or issue record matching the form's PO carries
\* one, shows an error and issues no write, whatever the form's PO, empty included.
C6_UnresolvableSubmitWritesNothing ==
    ( /\ ev.op = "submit"
      /\ HasInvoice(itemInput)
      /\ HasNoBatch(itemInput)
      /\ ResolvableBatch(itemInput.poNo) = Empty )
    => /\ ev.alert # "none"
       /\ ev.writes = <<>>

\* C7: a submit by a logged-in operator whose form has an invoice/challan number
\* and no vendor batch number, while a department record matching the form's PO
\* (or, when no department record does, a vendor-issue record) carries a batch
\* number, issues a write whose vendorBatchNo is that batch number.
C7_SubmitWritesResolvedBatch ==
    ( /\ ev.op = "submit"
      /\ userUid # NoUid
      /\ HasInvoice(itemInput)
      /\ HasNoBatch(itemInput)
      /\ ResolvableBatch(itemInput.poNo) # Empty )
    => /\ Len(ev.writes) = 1
       /\ ev.writes[1].data.vendorBatchNo = ResolvableBatch(itemInput.poNo)

FormFields == DOMAIN InitialInput \ {"id", "vendorBatchNo"}

\* C8: a submit that goes through issues exactly one write: when a record of the
\* record set has the form's business key, an update of that record's id whose
\* payload carries the form's values over the record's; otherwise an add.
C8_SubmitWritesOnceByKey ==
    (ev.op = "submit" /\ ev.alert = "none")
    => /\ Len(ev.writes) = 1
       /\ \A f \in FormFields : ev.writes[1].data[f] = itemInput[f]
       /\ IF BusinessKey(itemInput) \in RecordKeys
          THEN /\ ev.writes[1].kind = "update"
               /\ \E k \in 1..Len(records) :
                      /\ BusinessKey(records[k]) = BusinessKey(itemInput)
                      /\ ev.writes[1].id = records[k].id
                      /\ ev.writes[1].data.id = IF itemInput.id = NoId
                                                 THEN records[k].id
                                                 ELSE itemInput.id
          ELSE ev.writes[1].kind = "add"

\* an update of a record whose PO and item code are spelled differently from the
\* form's, and whose indent number the form's empty one replaces
C8_Witness ==
    /\ ev.op = "submit"
    /\ Len(ev.writes) = 1
    /\ ev.writes[1].kind = "update"
    /\ \E k \in 1..Len(records) :
           /\ records[k].id = ev.writes[1].id
           /\ records[k].poNo # itemInput.poNo
           /\ records[k].itemCode # itemInput.itemCode
           /\ records[k].indentNo # Empty
           /\ ev.writes[1].data.indentNo = Empty
    /\ Len(records) = 2

\* an add while the record set holds records of other keys
C8_WitnessAdd ==
    /\ ev.op = "submit"
    /\ Len(ev.writes) = 1
    /\ ev.writes[1].kind = "add"
    /\ records # <<>>

(***************************************************************************)
(* Batches: the bulk rules together with the PSIR snapshots that make the  *)
(* indent auto-fill write.                                                 *)
(***************************************************************************)
BatchPsirSnapshots == { <<>>, <<PsirRecord(sP1, sN1)>> }

NextBatch ==
    \/ NextBulk
    \/ \E docs \in BatchPsirSnapshots : OnPsirsSnapshot(docs)

SpecBatch == Init /\ [][NextBatch]_vars

\* the places of the items of the run's source that come after its current one,
\* belong to an order with a PO number and have a key outside the run's Set
Pending(run) ==
    { at \in UNION { {<<i, j>> : j \in 1..Len(getOrderItems(run.source[i]))} :
                      i \in 1..Len(run.source) } :
        /\ at[1] > run.i \/ (at[1] = run.i /\ at[2] > run.j)
        /\ Truthy(getOrderPoNo(run.source[at[1]]))
        /\ ImportKey(run.source, at[1], at[2]) \notin run.combos }

\* the first of the places in S, in the order of the two loops
FirstPlace(S) ==
    CHOOSE at \in S : \A b \in S : at[1] < b[1] \/ (at[1] = b[1] /\ at[2] <= b[2])

\* C15: the failure of one write of a batch neither ends the batch nor undoes
\* it.  An import run whose add is rejected goes on with the add of its next
\* item that is not skipped, or ends when there is none, and issues nothing but
\* adds; a confirmed auto-delete issues the deletes of all records, and an indent
\* auto-fill that changed a record the updates of all records, in the one step
\* that starts them, before any of them can fail, and neither issues another kind
\* of write.
C15_BatchWritesIndependent ==
    [][ /\ ev'.op = "importAddRejected"
            => \E run \in imports \ imports' :
                   IF Pending(run) = {}
                   THEN ev'.writes = <<>> /\ imports' = imports \ {run}
                   ELSE /\ Len(ev'.writes) = 1
                        /\ ev'.writes[1].kind = "add"
                        /\ ev'.writes[1].data =
                               NewRecord(run, FirstPlace(Pending(run))[1],
                                         FirstPlace(Pending(run))[2])
        /\ (ev'.op = "autoDelete" /\ ev'.confirm = "yes")
            => /\ Len(ev'.writes) = Len(records)
               /\ \A i \in 1..Len(records) :
                      ev'.writes[i].kind = "delete" /\ ev'.writes[i].id = records[i].id
        /\ (ev'.op = "autoFillIndent" /\ ev'.updated)
            => /\ Len(ev'.writes) = Len(records')
               /\ \A i \in 1..Len(records') :
                      /\ ev'.writes[i].kind = "update"
                      /\ ev'.writes[i].id = records'[i].id
                      /\ ev'.writes[i].data = records'[i]
      ]_vars

\* C15 witness: the first add of an import run was rejected and the run has
\* issued the add of its next item
C15_Witness ==
    /\ ev.op = "importAddRejected"
    /\ Len(ev.writes) = 1
    /\ ev.writes[1].kind = "add"

\* an order that auto-import is to pass over
LacksPoOrItems(order) == getOrderPoNo(order) = Empty \/ Len(getOrderItems(order)) = 0

\* a run about to start on the current source collections
RunAtStart ==
    ImportRun(userUid, IF purchaseOrders # <<>> THEN purchaseOrders ELSE purchaseData,
              existingCombinationsRef, vendorDeptOrders, 0, 0, <<>>)

\* C16: auto-import issues no add for a source order without resolvable PO number
\* or without line items, and such an order does not end the run: a run starts
\* with, and after each settled add goes on with, the next item in source order
\* that belongs to an order with PO number and whose key is not in the run's Set.
C16_ImportSkipsOrdersWithoutPoOrItems ==
    /\ [](\A run \in imports : ~LacksPoOrItems(run.source[run.i]))
    /\ [][ /\ (ev'.op = "autoImport" /\ ev'.confirm = "yes" /\ userUid # NoUid)
               => IF Pending(RunAtStart) = {}
                  THEN ev'.writes = <<>> /\ imports' = imports
                  ELSE /\ Len(ev'.writes) = 1
                       /\ \E run \in imports' \ imports :
                              /\ <<run.i, run.j>> = FirstPlace(Pending(RunAtStart))
                              /\ ev'.writes[1].data = NewRecord(run, run.i, run.j)
           /\ ev'.op \in {"importAddResolved", "importAddRejected"}
               => \E run \in imports \ imports' :
                      IF Pending(run) = {}
                      THEN ev'.writes = <<>>
                      ELSE /\ Len(ev'.writes) = 1
                           /\ \E next \in imports' \ imports :
                                  /\ <<next.i, next.j>> = FirstPlace(Pending(run))
                                  /\ ev'.writes[1].data = NewRecord(next, next.i, next.j)
         ]_vars

\* C16 witness: a run over an order without PO number, an order without line
\* items and a third order has issued the add of the third order's item
C16_Witness ==
    /\ ev.op = "autoImport"
    /\ Len(ev.writes) = 1
    /\ \E run \in imports :
           /\ Len(run.source) = 3
           /\ getOrderPoNo(run.source[1]) = Empty
           /\ getOrderItems(run.source[2]) = <<>>
           /\ run.i = 3

(***************************************************************************)
(* Sessions: two users log in and out while snapshots arrive, the one-shot *)
(* fetches started at login settle, the rules on the record set run and    *)
(* the operator submits and deletes.                                       *)
(***************************************************************************)
SessionUsers == {"u1", "u2"}

SessionRecordSnapshots == { <<>>, <<VSRIRecord("r1", sP1, sA, Empty, Empty, Empty, 1)>> }

SessionPsirSnapshots == { <<>>, <<PsirRecord(sP1, sN1)>> }

ItemMasterResult == <<[itemName |-> sA, itemCode |-> sA]>>

VendorIssuesResult == <<VendorIssue(sP1, sVB7, <<[itemCode |-> sA]>>)>>

NextSession ==
    \/ \E uid \in SessionUsers \cup {NoUid} : AuthChange(uid)
    \/ \E docs \in SessionRecordSnapshots : OnVSIRSnapshot(docs)
    \/ \E docs \in SessionPsirSnapshots : OnPsirsSnapshot(docs)
    \/ \E docs \in BulkDeptSnapshots : OnVendorDeptsSnapshot(docs)
    \/ \E f \in fetches, ok \in BOOLEAN : ItemMasterSettles(f, ok, ItemMasterResult)
    \/ \E f \in fetches, ok \in BOOLEAN : VendorIssuesSettles(f, ok, VendorIssuesResult)
    \/ ToggleAutoDelete
    \/ HandleSubmit
    \/ \E idx \in 1..MaxDocs, ok \in BOOLEAN : HandleDelete(idx, ok)
    \/ \E id \in deleting, ok \in BOOLEAN : DeleteSettles(id, ok)
    \/ Effects

SpecSession == Init /\ [][NextSession]_vars

(***************************************************************************)
(* Claims on the session: the backfill rule, logout, stale deliveries and  *)
(* writes without identity.                                                *)
(***************************************************************************)
InQueue(q, e) == \E i \in 1..Len(q) : q[i] = e

sOA2 == <<"O", "2">>

\* the record with its oaNo and purchaseBatchNo replaced
WithOaBatch(record, oaNo, batchNo) ==
    [record EXCEPT !.oaNo = oaNo, !.purchaseBatchNo = batchNo]

\* the result keeps every non-empty oaNo and purchaseBatchNo of the record
KeepsPopulated(record, result) ==
    /\ record.oaNo # Empty => result.oaNo = record.oaNo
    /\ record.purchaseBatchNo # Empty => result.purchaseBatchNo = record.purchaseBatchNo

\* C11: the backfill of missing OA/Batch runs at most once, for the mount: it is
\* never queued again by a later change of the record set or of the reference
\* data; and a run, like the rule applied to any record under any reference data,
\* leaves every oaNo and purchaseBatchNo that is already non-empty as it was.
C11_BackfillOnceNoOverwrite ==
    /\ [][ /\ InQueue(queue', "backfill")
                => (InQueue(queue, "backfill") /\ ~Running("backfill"))
           /\ Running("backfill")
                => /\ Len(records') = Len(records)
                   /\ \A i \in 1..Len(records) : KeepsPopulated(records[i], records'[i])
         ]_vars
    /\ [](\A i \in 1..Len(records) : \A oaNo, batchNo \in {Empty, sOA2} :
              KeepsPopulated(WithOaBatch(records[i], oaNo, batchNo),
                             BackfillRecord(WithOaBatch(records[i], oaNo, batchNo))))

\* C11 witness: the backfill has run, and the record set now holds a record
\* without OA number that the rule would fill from the department records, and
\* one with an OA number of its own that the rule would keep
C11_Witness ==
    /\ Idle
    /\ ~InQueue(queue, "backfill")
    /\ \E i \in 1..Len(records) :
           /\ records[i].oaNo = Empty
           /\ BackfillRecord(records[i]).oaNo = sOA1
           /\ BackfillRecord(WithOaBatch(records[i], sOA2, Empty)).oaNo = sOA2
           /\ BackfillRecord(WithOaBatch(records[i], sOA2, Empty)).purchaseBatchNo = sPB1

\* C12: while the identity is absent every cached collection (primary records,
\* department records, PSIR records, purchase data, purchase orders, item master,
\* vendor issues) is empty, whatever the interleaving of the logout with the
\* snapshot callbacks and with the fetches started at login.
C12_LoggedOutCachesEmpty ==
    userUid = NoUid
    => /\ records = <<>>
       /\ vendorDeptOrders = <<>>
       /\ psirData = <<>>
       /\ purchaseData = <<>>
       /\ purchaseOrders = <<>>
       /\ itemMaster = <<>>
       /\ vendorIssues = <<>>

SnapshotOps ==
    {"vsirSnapshot", "vendorDeptsSnapshot", "psirsSnapshot", "purchaseDataSnapshot",
     "purchaseOrdersSnapshot"}

\* C13: a delivery of the previous identity is dropped: a snapshot callback runs
\* only under a subscription of the current identity, and the completion of a
\* getItemMaster or getVendorIssues call started for another identity than the
\* current one leaves the item master and the vendor issues as they were.
C13_StaleDeliveriesDropped ==
    [][ /\ ev'.op \in SnapshotOps
            => \A i \in 1..Len(unsubscribersRef) : unsubscribersRef[i].uid = userUid
        /\ \A f \in fetches \ fetches' :
               f.uid # userUid => (itemMaster' = itemMaster /\ vendorIssues' = vendorIssues)
      ]_vars

\* C14: while the identity is absent no step issues an add, update or delete.
C14_NoWriteWithoutIdentity == userUid = NoUid => ev.writes = <<>>

(***************************************************************************)
(* Editing: records and department records carry vendor batch numbers of   *)
(* this year and another, with one and two digits and a leading zero, one  *)
(* without number and one with text before the pattern; the operator       *)
(* opens records in the form in either of two years.                       *)
(***************************************************************************)
s26 == <<"2", "6">>
s27 == <<"2", "7">>

Years == {s26, s27}

BatchNo(yy, digits) == yy \o <<"/", "V">> \o digits

EditDocs ==
    { VSRIRecord("r1", sP1, sA, Empty, Empty, Empty, 1),
      VSRIRecord("r1", sP1, sA, Empty, <<"x">> \o BatchNo(s26, <<"1", "2">>), Empty, 1),
      VSRIRecord("r2", sP1, sB, Empty, BatchNo(s26, <<"9">>), Empty, 2),
      VSRIRecord("r2", sP1, sB, Empty, BatchNo(s27, <<"3">>), Empty, 2) }

EditDeptSnapshots ==
    { <<>>,
      <<DeptOrder(sP2, BatchNo(s26, <<"0", "7">>))>>,
      <<DeptOrder(sP2, BatchNo(s26, <<>>)), DeptOrder(sP2, BatchNo(s26, <<"1", "0">>)),
        DeptOrder(sP2, BatchNo(s27, <<"3", "0">>))>> }

NextEdit ==
    \/ \E uid \in Users \cup {NoUid} : AuthChange(uid)
    \/ \E docs \in SnapshotsOf(EditDocs) : OnVSIRSnapshot(docs)
    \/ \E docs \in EditDeptSnapshots : OnVendorDeptsSnapshot(docs)
    \/ \E idx \in 1..MaxDocs, yy \in Years : HandleEdit(idx, yy)
    \/ Effects

SpecEdit == Init /\ [][NextEdit]_vars

\* the pattern YY/V<digit> stands in s at position p
PatternAt(s, yy, p) ==
    /\ p + Len(yy) + 2 <= Len(s)
    /\ SubSeq(s, p, p + Len(yy) + 1) = yy \o <<"/", "V">>
    /\ IsDigit(s[p + Len(yy) + 2])

\* the number n of the first YY/Vn in s: its digits run on to the first character
\* that is not a digit
NumberIn(s, yy) ==
    LET p == CHOOSE q \in 1..Len(s) :
                 PatternAt(s, yy, q) /\ \A r \in 1..(q - 1) : ~PatternAt(s, yy, r)
        from == p + Len(yy) + 2
        to == CHOOSE e \in from..Len(s) :
                  /\ \A k \in from..e : IsDigit(s[k])
                  /\ e = Len(s) \/ ~IsDigit(s[e + 1])
    IN  ParseInt(SubSeq(s, from, to))

\* the numbers of the current-year batch numbers of the local records and of the
\* department records
CurrentYearNumbers(yy) ==
    { NumberIn(s, yy) :
        s \in { t \in {records[i].vendorBatchNo : i \in 1..Len(records)}
                      \cup {vendorDeptOrders[i].vendorBatchNo :
                                i \in 1..Len(vendorDeptOrders)} :
                    \E p \in 1..Len(t) : PatternAt(t, yy, p) } }

\* C17: in whichever year it is called, generateVendorBatchNo returns YY/V(max+1):
\* YY/V followed by the decimal digits, without leading zero, of one more than the
\* largest number n of a YY/Vn found in the vendor batch numbers of the local and
\* the department records, 0 standing in when there is none; numbers of other
\* years and strings without YY/V<digits> do not count.
C17_NextBatchNoIsMaxPlusOne ==
    \A yy \in Years :
        LET result == generateVendorBatchNo(yy)
            digits == SubSeq(result, Len(yy) + 3, Len(result))
            nums == CurrentYearNumbers(yy)
        IN  /\ SubSeq(result, 1, Len(yy) + 2) = yy \o <<"/", "V">>
            /\ digits # <<>>
            /\ \A k \in 1..Len(digits) : IsDigit(digits[k])
            /\ digits[1] # "0"
            /\ \A n \in nums : ParseInt(digits) > n
            /\ nums = {} => ParseInt(digits) = 1
            /\ nums # {} => \E n \in nums : ParseInt(digits) = n + 1

\* C17 witness: a record without vendor batch number was opened in the form and
\* got 26/V11, the record set holding 26/V9 and the department records 26/V with
\* no number, 26/V10 and 27/V30
C17_Witness ==
    /\ ev.op = "edit"
    /\ itemInput.vendorBatchNo = BatchNo(s26, <<"1", "1">>)
    /\ \E i \in 1..Len(records) : records[i].vendorBatchNo = BatchNo(s26, <<"9">>)
    /\ Len(vendorDeptOrders) = 3

(***************************************************************************)
(* Claims on the order and the repetition of deliveries.                   *)
(***************************************************************************)
\* C18: the record set that results from a primary-record snapshot and a
\* department-record or PSIR snapshot does not depend on which came first.  With
\* the records first, the later reference snapshot runs the rule that derives
\* vendorBatchNo or indentNo; so whenever the effects have run to their end under
\* a logged-in user, every record carries the vendorBatchNo and the indentNo that
\* the two rules derive for it from the reference data in the cache.
C18_SnapshotOrderIndependent ==
    (Idle /\ userUid # NoUid)
    => \A i \in 1..Len(records) :
           /\ SyncVendorBatch(records[i]).vendorBatchNo = records[i].vendorBatchNo
           /\ (psirData # <<>> => FillIndent(records[i]).indentNo = records[i].indentNo)

\* most runImport calls in progress at once when runs overlap
MaxOverlap == 2

RerunRecordSnapshots == { <<>>, <<VSRIRecord("r1", sP1, sA, Empty, Empty, Empty, 2)>> }

RerunOrderSnapshots == { <<>>, <<OrderP1>>, <<OrderFlat>> }

\* auto-import triggered again by a source snapshot while a run awaits its adds
NextRerun ==
    \/ \E uid \in Users \cup {NoUid} : AuthChange(uid)
    \/ \E docs \in RerunRecordSnapshots : OnVSIRSnapshot(docs)
    \/ \E docs \in RerunOrderSnapshots : OnPurchaseOrdersSnapshot(docs)
    \/ ToggleAutoImport
    \/ \E run \in imports, ok \in BOOLEAN : ImportAddSettles(run, ok)
    \/ AutoImportEffectUpTo(MaxOverlap)
    \/ Effects

SpecRerun == Init /\ [][NextRerun]_vars

\* the keys that occur in q
KeysIn(q) == {q[i] : i \in 1..Len(q)}

\* C19: runs of auto-import that overlap, the later one started while the earlier
\* one still awaits an add, never add one business key twice between them.
C19_RerunAddsNoKeyTwice ==
    \A r1, r2 \in imports : r1 # r2 => KeysIn(r1.added) \cap KeysIn(r2.added) = {}

(***************************************************************************)
(* Settling: the record set of SpecRecords, with the primary subscription  *)
(* also delivering back the record set as the rules have written it, and   *)
(* with a department record whose vendor batch number is a blank.  A       *)
(* queued effect is always run: React runs the effects of a commit before  *)
(* it takes the next event.                                                *)
(***************************************************************************)
SettleDeptSnapshots == { <<DeptOrder(sP1, sBlank)>> }

\* the store delivers the records as the component holds and has written them
EchoSnapshot == records # <<>> /\ OnVSIRSnapshot(records)

NextSettle ==
    \/ NextRecords
    \/ \E docs \in SettleDeptSnapshots : OnVendorDeptsSnapshot(docs)
    \/ EchoSnapshot

SpecSettle == Init /\ [][NextSettle]_vars /\ WF_vars(Effects)

\* C20: the rules reach a fixed point.  Once nothing happens any more but effects
\* and the store delivering the record set back, from some point on no step
\* changes the record set or issues a write; in particular the indent auto-fill
\* that runs over records it has nothing to fill in, and the vendor-batch sync
\* that runs over records it has nothing to fill in, leave the record set alone,
\* request no update and issue no write; and the queue of effects always empties.
C20_RulesReachFixedPoint ==
    /\ [][ /\ ( /\ Running("autoFillIndent")
                /\ \A i \in 1..Len(records) : FillIndent(records[i]) = records[i] )
              => (records' = records /\ ~ev'.updated /\ ev'.writes = <<>>)
           /\ ( /\ Running("syncVendorBatch")
                /\ \A i \in 1..Len(records) : SyncVendorBatch(records[i]) = records[i] )
              => (records' = records /\ ~ev'.updated /\ ev'.writes = <<>>)
         ]_vars
    /\ []<>Idle
    /\ (<>[][EchoSnapshot \/ Effects]_vars)
         => <>[][records' = records /\ ev'.writes = <<>>]_vars


(***************************************************************************)
(* Claims on what a rule leaves alone.                                     *)
(***************************************************************************)
\* the record has a PO number, no indentNo, and a PSIR record of its PO number
\* (compared trimmed) carries an indentNo
IndentFillable(r) ==
    /\ r.poNo # Empty
    /\ r.indentNo = Empty
    /\ \E k \in 1..Len(psirData) :
           Trim(psirData[k].poNo) = Trim(r.poNo) /\ psirData[k].indentNo # Empty

\* the writes of the step that name the record's id
WritesFor(writes, id) == {k \in 1..Len(writes) : writes[k].id = id}

\* C21: a run of the indent auto-fill rule changes only the indentNo of records
\* that have a PO number, an empty indentNo and a PSIR match with a non-empty
\* indentNo; it issues one store update for each record it changed, and no
\* write for, and no change to, any other record.
C21_IndentFillTouchesOnlyFilled ==
    [][Running("autoFillIndent") =>
          /\ Len(records') = Len(records)
          /\ \A i \in 1..Len(records) :
                 IF records'[i] # records[i]
                 THEN /\ IndentFillable(records[i])
                      /\ records'[i] = [records[i] EXCEPT !.indentNo = records'[i].indentNo]
                      /\ Cardinality(WritesFor(ev'.writes, records[i].id)) = 1
                      /\ \A k \in WritesFor(ev'.writes, records[i].id) :
                             ev'.writes[k].kind = "update"
                 ELSE WritesFor(ev'.writes, records[i].id) = {}
      ]_vars


\* the first non-empty string of q, '' when there is none
RECURSIVE FirstNonEmpty(_)
FirstNonEmpty(q) ==
    IF q = <<>> THEN Empty
    ELSE IF Head(q) # Empty THEN Head(q) ELSE FirstNonEmpty(Tail(q))

\* the value under field f of the first record of refs whose PO number, under
\* field po, equals poNo once both are trimmed; '' when no record matches
MatchValue(refs, po, poNo, f) ==
    LET hits == SelectSeq(refs, LAMBDA x : Trim(x[po]) = Trim(poNo))
    IN  IF hits = <<>> THEN Empty ELSE Head(hits)[f]

\* the OA number the record is to hold: its own, else the first non-empty one of
\* its PSIR match, its department match and its vendor-issue match
ResolvedOaNo(r) ==
    FirstNonEmpty(<<r.oaNo,
                    MatchValue(psirData, "poNo", r.poNo, "oaNo"),
                    MatchValue(vendorDeptOrders, "materialPurchasePoNo", r.poNo, "oaNo"),
                    MatchValue(vendorIssues, "materialPurchasePoNo", r.poNo, "oaNo")>>)

\* the purchase batch number the record is to hold, resolved in the same order
ResolvedBatchNo(r) ==
    FirstNonEmpty(<<r.purchaseBatchNo,
                    MatchValue(psirData, "poNo", r.poNo, "batchNo"),
                    MatchValue(vendorDeptOrders, "materialPurchasePoNo", r.poNo, "batchNo"),
                    MatchValue(vendorIssues, "materialPurchasePoNo", r.poNo, "batchNo")>>)

\* C22: the one-time backfill fills each missing oaNo and purchaseBatchNo of a
\* record that has a PO number with the first non-empty value of its PSIR match,
\* its department match and its vendor-issue match; so once the backfill has run
\* and the effects of the load have run to their end under a logged-in user,
\* every record with a PO number holds the values so resolved.
C22_BackfillResolvesAfterLoad ==
    (Idle /\ userUid # NoUid /\ ~InQueue(queue, "backfill"))
    => \A i \in 1..Len(records) :
           records[i].poNo # Empty
           => /\ records[i].oaNo = ResolvedOaNo(records[i])
              /\ records[i].purchaseBatchNo = ResolvedBatchNo(records[i])

\* the backfill rule, applied to a record, yields the resolved values
BackfillRuleResolves ==
    \A i \in 1..Len(records) :
        records[i].poNo # Empty
        => /\ BackfillRecord(records[i]).oaNo = ResolvedOaNo(records[i])
           /\ BackfillRecord(records[i]).purchaseBatchNo = ResolvedBatchNo(records[i])


C26_WitnessSnapshot ==
    /\ ev.op = "vsirSnapshot"
    /\ \E i \in 1..Len(records) :
           /\ records[i].vendorBatchNo = Empty
           /\ SyncVendorBatch(records[i]).vendorBatchNo = sVB5

\* C27: a manual delete takes the record out of the in-memory set only once the
\* store delete has succeeded, and takes out exactly the record with that id.  The
\* handler itself leaves the record set as it was, and issues the one delete of
\* that id only if an identity is present and the operator confirmed; when the
\* delete succeeds every record with another id stays, in order, and none with
\* that id; when it fails the record set is unchanged.
C27_ManualDeleteAfterStore ==
    [][ /\ ev'.op = "delete"
            => /\ records' = records
               /\ (userUid = NoUid \/ ev'.confirm # "yes") => ev'.writes = <<>>
               /\ ev'.writes # <<>>
                    => /\ Len(ev'.writes) = 1
                       /\ ev'.writes[1].kind = "delete"
                       /\ \E i \in 1..Len(records) : records[i].id = ev'.writes[1].id
        /\ ev'.op = "deleteResolved"
            => \E id \in deleting \ deleting' :
                   /\ records' = SelectSeq(records, LAMBDA r : r.id # id)
                   /\ Len(records') >= Len(records) - 1
        /\ ev'.op = "deleteRejected" => records' = records
      ]_vars

\* C27 witness: a delete has succeeded and left the other record in place
C27_Witness ==
    /\ ev.op = "deleteResolved"
    /\ Len(records) = 1
    /\ deleting = {}

\* C27 witness: a delete has failed and the records are still there
C27_WitnessRejected ==
    /\ ev.op = "deleteRejected"
    /\ Len(records) = 2

\* C27 witness: the operator declined and the records are still there
C27_WitnessDeclined ==
    /\ ev.op = "delete"
    /\ ev.confirm = "no"
    /\ records # <<>>

\* the business keys of the records, as the strings the cache holds
CacheKeys(recs) ==
    {Lower(Trim(recs[i].poNo)) \o <<"|">> \o Lower(Trim(recs[i].itemCode)) :
         i \in 1..Len(recs)}

\* C28: whenever the effects of a change of the record set have run to their
\* end, the deduplication cache is exactly the set of business keys of the
\* records in memory, no key of a removed record kept and none of a present
\* record missing; and an import run that starts tests membership against that
\* set.
C28_CacheIsKeysOfRecords ==
    /\ [](Idle => existingCombinationsRef = CacheKeys(records))
    /\ [][ev'.op = "autoImport" =>
              \A run \in imports' \ imports : run.combos = CacheKeys(records)]_vars

\* C28 witness: an import run has started against the keys of a record set that
\* a snapshot had loaded
C28_Witness ==
    /\ ev.op = "autoImport"
    /\ Len(ev.writes) = 1
    /\ \E run \in imports : run.combos # {} /\ run.combos = CacheKeys(records)

\* C28 witness: the cache holds the one key of the one record in memory
C28_WitnessRebuilt ==
    /\ Idle
    /\ Len(records) = 1
    /\ Cardinality(existingCombinationsRef) = 1

(***************************************************************************)
(* The form synchronizers: the operator types a PO number, an indent       *)
(* number and an OA number into the form while PSIR, department and        *)
(* vendor-issue data arrive.                                               *)
(***************************************************************************)
sVN == <<"V", "N">>

SyncPsirSnapshots ==
    { <<>>,
      <<PsirRecord(sP1, sN1)>>,
      <<[PsirRecord(sP1pad, Empty) EXCEPT !.oaNo = sOA2], PsirRecord(sP1, sN1)>> }

SyncIssueResults ==
    { <<[VendorIssue(sP1, Empty, <<>>) EXCEPT !.vendorName = sVN, !.batchNo = sVB7]>> }

SyncFormValues(name) ==
    CASE name = "poNo" -> {Empty, sP1, sP2}
      [] name = "indentNo" -> {Empty, sN0}
      [] name = "oaNo" -> {Empty, sOA2}
      [] name = "vendorName" -> {Empty, sB}

NextSync ==
    \/ \E uid \in Users \cup {NoUid} : AuthChange(uid)
    \/ \E docs \in SyncPsirSnapshots : OnPsirsSnapshot(docs)
    \/ \E docs \in BulkDeptSnapshots : OnVendorDeptsSnapshot(docs)
    \/ \E f \in fetches : ItemMasterSettles(f, TRUE, <<>>)
    \/ \E f \in fetches, ok \in BOOLEAN, vi \in SyncIssueResults :
           VendorIssuesSettles(f, ok, vi)
    \/ \E name \in {"poNo", "indentNo", "oaNo", "vendorName"} :
           \E value \in SyncFormValues(name) : HandleChange(name, value)
    \/ Effects

SpecSync == Init /\ [][NextSync]_vars

\* C23: the form synchronizer for indentNo, run when the form's PO number or the
\* PSIR data changed, sets nothing but the form's indentNo, sets it to the
\* indentNo of the PSIR match of the form's PO number, and only if the form's
\* indentNo is empty: a non-empty indentNo in the form is never replaced.
C23_FormIndentOnlyIfEmpty ==
    [][Running("formIndent") =>
          /\ itemInput' = [itemInput EXCEPT !.indentNo = itemInput'.indentNo]
          /\ itemInput'.indentNo # itemInput.indentNo
               => /\ itemInput.indentNo = Empty
                  /\ itemInput'.indentNo =
                         MatchValue(psirData, "poNo", itemInput.poNo, "indentNo")
      ]_vars

\* C24: the form synchronizer for oaNo, purchaseBatchNo and vendorName sets no
\* other field of the form, and sets each of the three only if the form holds no
\* value for it: a field of the three that is non-empty is never changed.
C24_FormOaBatchOnlyIfEmpty ==
    [][Running("formOaBatch") =>
          /\ itemInput' = [itemInput EXCEPT !.oaNo = itemInput'.oaNo,
                                            !.purchaseBatchNo = itemInput'.purchaseBatchNo,
                                            !.vendorName = itemInput'.vendorName]
          /\ \A f \in {"oaNo", "purchaseBatchNo", "vendorName"} :
                 itemInput[f] # Empty => itemInput'[f] = itemInput[f]
      ]_vars


(***************************************************************************)
(* The life of the component: two users log in and out, snapshots of all   *)
(* five collections arrive, the fetches settle, and the component          *)
(* unmounts, after which none of its callbacks runs; it unmounts between   *)
(* two events, when no effect is pending.                                  *)
(***************************************************************************)
NextMount ==
    \/ Mounted /\ \E uid \in SessionUsers \cup {NoUid} : AuthChange(uid)
    \/ Mounted /\ \E docs \in SessionRecordSnapshots : OnVSIRSnapshot(docs)
    \/ Mounted /\ \E docs \in SessionPsirSnapshots : OnPsirsSnapshot(docs)
    \/ Mounted /\ \E docs \in BulkDeptSnapshots : OnVendorDeptsSnapshot(docs)
    \/ Mounted /\ \E docs \in PurchaseDataSnapshots : OnPurchaseDataSnapshot(docs)
    \/ Mounted /\ \E docs \in RerunOrderSnapshots : OnPurchaseOrdersSnapshot(docs)
    \/ Mounted /\ \E f \in fetches, ok \in BOOLEAN :
                      ItemMasterSettles(f, ok, ItemMasterResult)
    \/ Mounted /\ \E f \in fetches, ok \in BOOLEAN :
                      VendorIssuesSettles(f, ok, VendorIssuesResult)
    \/ Effects
    \/ Unmount

SpecMount == Init /\ [][NextMount]_vars

SubscribedCollections ==
    {"vsir", "vendorDepts", "psirs", "purchaseData", "purchaseOrders"}

\* C25: the active subscriptions match the identity.  While the component is
\* mounted there is none when no identity is present, and with an identity
\* present there is exactly one for each of the five subscribed collections, each
\* for the current identity, however many auth notifications came before; after
\* the unmount there is none.
C25_SubscriptionsMatchIdentity ==
    IF Mounted /\ userUid # NoUid
    THEN /\ \A c \in SubscribedCollections :
                Cardinality({i \in 1..Len(unsubscribersRef) :
                                 unsubscribersRef[i].coll = c}) = 1
         /\ \A i \in 1..Len(unsubscribersRef) :
                /\ unsubscribersRef[i].coll \in SubscribedCollections
                /\ unsubscribersRef[i].uid = userUid
    ELSE unsubscribersRef = <<>>

\* C25 witness: u2 is logged in after u1, whose fetch is still in flight, and
\* holds the five subscriptions
C25_Witness ==
    /\ Mounted
    /\ userUid = "u2"
    /\ \E f \in fetches : f.uid = "u1"
    /\ Len(unsubscribersRef) = 5

\* C25 witness: the component unmounted while a user was logged in
C25_WitnessUnmount ==
    /\ ~Mounted
    /\ userUid # NoUid
    /\ unsubscribersRef = <<>>

=============================================================================
